---------------------------- MODULE Spec2Model ----------------------------
(***************************************************************************)
(* QR symbol encoder of the GBA crypto wallet: qr_encode_text and the      *)
(* matrix construction of src/src/qr/qr_encoder.c, the QrState life cycle  *)
(* of src/src/qr/qr_system.c and the Reed-Solomon coder of                 *)
(* src/src/qr/reed_solomon.c.                                              *)
(*                                                                         *)
(* A module matrix is the C buffer u8 data[size*size]: a function from the *)
(* flat index y*size+x to 0 (light) or 1 (dark).                           *)
(***************************************************************************)
EXTENDS Integers, Sequences, FiniteSets, TLC

(***************************************************************************)
(* Tables of qr_encoder.c                                                  *)
(***************************************************************************)
NUM_VERSIONS == 5

\* VERSION_INFO[i] for the C index i = 0..NUM_VERSIONS-1 (sequence index i+1).
VERSION_INFO ==
  << [version |-> 1, size |-> 21, capacity |-> <<17, 14, 11, 7>>],
     [version |-> 2, size |-> 25, capacity |-> <<32, 26, 20, 14>>],
     [version |-> 3, size |-> 29, capacity |-> <<53, 42, 32, 24>>],
     [version |-> 4, size |-> 33, capacity |-> <<78, 62, 46, 34>>],
     [version |-> 5, size |-> 37, capacity |-> <<106, 84, 60, 44>>] >>

\* ALIGNMENT_POSITIONS[version - 2], eight entries each, 0 terminates the list.
ALIGNMENT_POSITIONS ==
  << <<18, 0, 0, 0, 0, 0, 0, 0>>,
     <<22, 0, 0, 0, 0, 0, 0, 0>>,
     <<26, 0, 0, 0, 0, 0, 0, 0>>,
     <<30, 0, 0, 0, 0, 0, 0, 0>> >>

\* FORMAT_INFO[ec_level][mask_pattern], the C hexadecimal words in decimal.
FORMAT_INFO ==
  << <<30660, 29427, 32170, 30877, 26159, 25368, 27713, 26998>>,
     <<21522, 20773, 24188, 23371, 17913, 16590, 20375, 19104>>,
     <<13663, 12392, 16177, 14854, 9396, 8579, 11994, 11245>>,
     <<5769, 5054, 7399, 6608, 1890, 597, 3340, 2107>> >>

QR_ECLEVEL_L == 0
QR_ECLEVEL_M == 1
QR_ECLEVEL_Q == 2
QR_ECLEVEL_H == 3
QR_ECLEVEL_COUNT == 4

\* The null pointer, represented as the array with no elements: no buffer
\* the program allocates or is handed is empty, except a zero-length block,
\* which every function here treats as it treats NULL.
NULL == <<>>

(***************************************************************************)
(* Matrix construction (create_matrix and the functions it calls)          *)
(***************************************************************************)
RowOf(k, size) == k \div size
ColOf(k, size) == k % size

\* The condition under which the three finder loops write a 1 at (x, y),
\* x and y relative to the pattern's corner.
FinderDark(x, y) ==
  \/ x = 0 \/ x = 6 \/ y = 0 \/ y = 6
  \/ (x >= 2 /\ x <= 4 /\ y >= 2 /\ y <= 4)

\* The flat indices the separator loop clears.
SeparatorCells(size) ==
  UNION { { 7 * size + i, i * size + 7,
            7 * size + (size - 8 + i), i * size + (size - 8),
            (size - 8) * size + i, (size - 8 + i) * size + 7 } : i \in 0..6 }

\* The flat indices the three finder loops set to 1.
FinderCells(size) ==
  UNION { { y * size + x, y * size + (size - 7 + x), (size - 7 + y) * size + x }
          : <<x, y>> \in { p \in (0..6) \X (0..6) : FinderDark(p[1], p[2]) } }

\* The matrix after writing 0 to the cells of zeros and then 1 to the cells
\* of ones (no cell is in both).
SetCells(matrix, zeros, ones) ==
  [k \in DOMAIN matrix |->
     IF k \in zeros THEN 0 ELSE IF k \in ones THEN 1 ELSE matrix[k]]

add_finder_patterns(matrix, size) ==
  SetCells(matrix, SeparatorCells(size), FinderCells(size))

\* The entries of positions[] the loop visits: it stops at the first 0.
RECURSIVE ActivePositions(_, _)
ActivePositions(positions, i) ==
  IF i > 8 \/ positions[i] = 0 THEN {}
  ELSE {positions[i]} \cup ActivePositions(positions, i + 1)

AlignmentCells(size) ==
  LET version == (size - 17) \div 4
  IN  IF size <= 21 \/ version < 2 \/ version > 5 THEN {}
      ELSE UNION { { (pos + y) * size + (pos + x) :
                       <<x, y>> \in { p \in (-2..2) \X (-2..2) :
                          /\ \/ p[1] = -2 \/ p[1] = 2 \/ p[2] = -2 \/ p[2] = 2
                             \/ (p[1] = 0 /\ p[2] = 0)
                          /\ ~ \/ (pos + p[1] < 7 /\ pos + p[2] < 7)
                               \/ (pos + p[1] > size - 8 /\ pos + p[2] < 7)
                               \/ (pos + p[1] < 7 /\ pos + p[2] > size - 8) } }
                 : pos \in ActivePositions(ALIGNMENT_POSITIONS[version - 1], 1) }

add_alignment_patterns(matrix, size) ==
  SetCells(matrix, {}, AlignmentCells(size))

add_timing_patterns(matrix, size) ==
  [k \in DOMAIN matrix |->
     LET y == RowOf(k, size)
         x == ColOf(k, size)
     IN  IF k = (size - 8) * size + 8 THEN 1
         ELSE IF x = 6 /\ y >= 8 /\ y < size - 8
           THEN (IF y % 2 = 0 THEN 1 ELSE 0)
         ELSE IF y = 6 /\ x >= 8 /\ x < size - 8
           THEN (IF x % 2 = 0 THEN 1 ELSE 0)
         ELSE matrix[k]]

\* (format_bits & (1 << i)) != 0, as 0 or 1.
FormatBit(format_bits, i) == (format_bits \div (2 ^ i)) % 2

\* Where iteration i of add_format_info stores its bit: the copy around the
\* top-left finder pattern, then the copy of the second if/else.
FormatFirstCopy(size, i) ==
  IF i < 6 THEN i * size + 8
  ELSE IF i < 8 THEN (i + 1) * size + 8
  ELSE 8 * size + (size - 15 + i)

FormatSecondCopy(size, i) ==
  IF i < 8 THEN 8 * size + (14 - i)
  ELSE (size - 15 + i) * size + 8

RECURSIVE PlaceFormatBits(_, _, _, _)
PlaceFormatBits(matrix, size, format_bits, i) ==
  IF i >= 15 THEN matrix
  ELSE LET bit == FormatBit(format_bits, i)
           m1 == [matrix EXCEPT ![FormatFirstCopy(size, i)] = bit]
           m2 == [m1 EXCEPT ![FormatSecondCopy(size, i)] = bit]
       IN  PlaceFormatBits(m2, size, format_bits, i + 1)

\* add_format_info after the table lookup; format_bits is the word read from
\* FORMAT_INFO[ec_level][mask_pattern].
add_format_info(matrix, size, format_bits) ==
  PlaceFormatBits(matrix, size, format_bits, 0)

\* add_version_info returns without writing for every version below 7, and
\* without writing for the others too.
add_version_info(matrix, size, version) == matrix

place_data(matrix, size) ==
  [k \in DOMAIN matrix |->
     LET y == RowOf(k, size)
         x == ColOf(k, size)
     IN  IF /\ y >= 8 /\ y < size - 8 /\ x >= 8 /\ x < size - 8
            /\ ~(x = 6 \/ y = 6)
            /\ (x + y) % 2 = 0
         THEN 1 ELSE matrix[k]]

\* create_matrix on a buffer of size*size bytes (the memset makes its former
\* content irrelevant); format_bits as in add_format_info.
create_matrix(size, format_bits) ==
  LET m0 == [k \in 0..(size * size - 1) |-> 0]
      m1 == add_finder_patterns(m0, size)
      m2 == IF size > 21 THEN add_alignment_patterns(m1, size) ELSE m1
      m3 == add_timing_patterns(m2, size)
      m4 == add_format_info(m3, size, format_bits)
      m5 == IF size >= 45 THEN add_version_info(m4, size, (size - 17) \div 4) ELSE m4
  IN  place_data(m5, size)

\* A faulty variant of MaskSkips: only the timing row and column are skipped,
\* so the mask reaches the finder patterns.
MaskSkipsTimingOnly(x, y, size) == x = 6 \/ y = 6

\* A faulty variant of MaskSkips: row 6 and column 6 are not skipped.
MaskSkipsCornersOnly(x, y, size) ==
  \/ (x < 9 /\ y < 9)
  \/ (x > size - 9 /\ y < 9)
  \/ (x < 9 /\ y > size - 9)

\* The modules apply_mask_pattern skips.
MaskSkips(x, y, size) ==
  \/ x = 6 \/ y = 6
  \/ (x < 9 /\ y < 9)
  \/ (x > size - 9 /\ y < 9)
  \/ (x < 9 /\ y > size - 9)

\* A faulty variant of MaskFlip: case 4 divides the column by 2 and the row
\* by 3.
MaskFlipSwapped4(mask_pattern, x, y) ==
  CASE mask_pattern = 0 -> (x + y) % 2 = 0
    [] mask_pattern = 1 -> y % 2 = 0
    [] mask_pattern = 2 -> x % 3 = 0
    [] mask_pattern = 3 -> (x + y) % 3 = 0
    [] mask_pattern = 4 -> ((y \div 3) + (x \div 2)) % 2 = 0
    [] mask_pattern = 5 -> ((x * y) % 2) + ((x * y) % 3) = 0
    [] mask_pattern = 6 -> (((x * y) % 2) + ((x * y) % 3)) % 2 = 0
    [] mask_pattern = 7 -> (((x + y) % 2) + ((x * y) % 3)) % 2 = 0

\* The switch of apply_mask_pattern.
MaskFlip(mask_pattern, x, y) ==
  CASE mask_pattern = 0 -> (x + y) % 2 = 0
    [] mask_pattern = 1 -> y % 2 = 0
    [] mask_pattern = 2 -> x % 3 = 0
    [] mask_pattern = 3 -> (x + y) % 3 = 0
    [] mask_pattern = 4 -> ((x \div 3) + (y \div 2)) % 2 = 0
    [] mask_pattern = 5 -> ((x * y) % 2) + ((x * y) % 3) = 0
    [] mask_pattern = 6 -> (((x * y) % 2) + ((x * y) % 3)) % 2 = 0
    [] mask_pattern = 7 -> (((x + y) % 2) + ((x * y) % 3)) % 2 = 0

\* The matrix apply_mask_pattern leaves when it returns true
\* (mask_pattern in 0..7).
apply_mask_pattern(matrix, size, mask_pattern) ==
  [k \in DOMAIN matrix |->
     LET y == RowOf(k, size)
         x == ColOf(k, size)
     IN  IF ~MaskSkips(x, y, size) /\ MaskFlip(mask_pattern, x, y)
         THEN 1 - matrix[k] ELSE matrix[k]]

(***************************************************************************)
(* The symbols qr_encode_text can build, tabulated once: create_matrix for *)
(* each size and format word, and apply_mask_pattern of each for every     *)
(* mask 0..7.  A format word outside FormatWords is computed directly.     *)
(***************************************************************************)
Sizes == { VERSION_INFO[i].size : i \in 1..NUM_VERSIONS }

\* What an out-of-range read of FORMAT_INFO may return (any u16; two samples).
JunkFormatWords == {0, 65535}

FormatWords ==
  { FORMAT_INFO[e][m] : e \in 1..4, m \in 1..8 } \cup JunkFormatWords

UnmaskedTable ==
  [size \in Sizes |-> [fb \in FormatWords |-> create_matrix(size, fb)]]

Unmasked(size, format_bits) ==
  IF size \in Sizes /\ format_bits \in FormatWords
  THEN UnmaskedTable[size][format_bits]
  ELSE create_matrix(size, format_bits)

MaskedTable ==
  [size \in Sizes |-> [fb \in FormatWords |-> [m \in 0..7 |->
     apply_mask_pattern(UnmaskedTable[size][fb], size, m)]]]

\* apply_mask_pattern(matrix, mask_pattern), looked up when matrix is the
\* tabulated create_matrix(size, format_bits).
MaskedFrom(matrix, size, format_bits, mask_pattern) ==
  IF size \in Sizes /\ format_bits \in FormatWords
     /\ matrix = UnmaskedTable[size][format_bits]
  THEN MaskedTable[size][format_bits][mask_pattern]
  ELSE apply_mask_pattern(matrix, size, mask_pattern)

(***************************************************************************)
(* Galois-field tables of qr_encoder.c (static arrays, zero until the      *)
(* first qr_encode_text initialises them)                                  *)
(***************************************************************************)
\* a ^ b of C on non-negative integers.
RECURSIVE BitXor(_, _)
BitXor(a, b) ==
  IF a = 0 THEN b
  ELSE IF b = 0 THEN a
  ELSE ((a + b) % 2) + 2 * BitXor(a \div 2, b \div 2)

\* A faulty variant of GfDouble: the reduction constant is 0x11B.
GfDoubleOtherPoly(x) == IF (x \div 128) % 2 = 1 THEN BitXor(2 * x, 283) ELSE 2 * x

\* x = (x << 1) ^ (x & 0x80 ? 0x11D : 0)
GfDouble(x) == IF (x \div 128) % 2 = 1 THEN BitXor(2 * x, 285) ELSE 2 * x

\* The values x takes in the first loop of init_galois_field, from x = 1.
RECURSIVE GfPowers(_, _, _)
GfPowers(i, x, acc) ==
  IF i >= 255 THEN acc ELSE GfPowers(i + 1, GfDouble(x), Append(acc, x))

\* The second and third loops of init_galois_field: gf_log[gf_exp[i]] = i,
\* for i ascending, on a table first cleared.
RECURSIVE GfLogFill(_, _, _)
GfLogFill(log, exp, i) ==
  IF i >= 255 THEN log
  ELSE GfLogFill([log EXCEPT ![exp[i]] = i], exp, i + 1)

init_galois_field ==
  LET pw == GfPowers(0, 1, <<>>)
      exp == [i \in 0..255 |-> IF i = 255 THEN pw[1] ELSE pw[i + 1] % 256]
  IN  [gf_exp |-> exp, gf_log |-> GfLogFill([a \in 0..255 |-> 0], exp, 0)]

\* Number of error correction codewords per level in init_generator_polynomials.
ec_codewords == <<7, 10, 13, 17>>

\* for (j = i; j > 0; j--) of init_generator_polynomials on one row.
RECURSIVE GenInner(_, _, _, _)
GenInner(row, gf, i, j) ==
  IF j <= 0 THEN row
  ELSE IF row[j - 1] # 0
    THEN GenInner([row EXCEPT ![j] =
                     BitXor(row[j - 1],
                            gf.gf_exp[(gf.gf_log[row[j - 1]] + i - 1) % 255])],
                  gf, i, j - 1)
    ELSE GenInner(row, gf, i, j - 1)

\* for (i = 1; i <= num_ec; i++) on one row.
RECURSIVE GenOuter(_, _, _, _)
GenOuter(row, gf, num_ec, i) ==
  IF i > num_ec THEN row
  ELSE LET r1 == GenInner(row, gf, i, i)
           r2 == [r1 EXCEPT ![0] = gf.gf_exp[(gf.gf_log[r1[0]] + i - 1) % 255]]
       IN  GenOuter(r2, gf, num_ec, i + 1)

\* ec_gen_poly[4][68] after init_generator_polynomials, from its former content.
init_generator_polynomials(ec_gen_poly, gf) ==
  [level \in 0..3 |->
     GenOuter([ec_gen_poly[level] EXCEPT ![0] = 1], gf, ec_codewords[level + 1], 1)]

\* The static tables before the first call (zero-initialised storage).
ZeroTables ==
  [initialized |-> FALSE,
   gf_exp |-> [i \in 0..255 |-> 0],
   gf_log |-> [i \in 0..255 |-> 0],
   ec_gen_poly |-> [level \in 0..3 |-> [j \in 0..67 |-> 0]]]

\* What the block "if (!tables_initialized) { ... }" leaves, from zeroed tables.
FilledTables ==
  LET gf == init_galois_field
  IN  [initialized |-> TRUE,
       gf_exp |-> gf.gf_exp,
       gf_log |-> gf.gf_log,
       ec_gen_poly |-> init_generator_polynomials(ZeroTables.ec_gen_poly, gf)]

\* gf_mul of qr_encoder.c on given tables.
gf_mul(t, a, b) ==
  IF a = 0 \/ b = 0 THEN 0 ELSE t.gf_exp[(t.gf_log[a] + t.gf_log[b]) % 255]

(***************************************************************************)
(* QrState (qr_system.h) and its life cycle (qr_system.c)                  *)
(***************************************************************************)
\* The QrState qr_init leaves.
qr_init_state ==
  [size |-> 0, data |-> NULL, data_length |-> 0,
   ec_level |-> QR_ECLEVEL_M, mask_pattern |-> 0, auto_mask |-> TRUE]

\* qr_free on a non-null QrState: mask_pattern, auto_mask and ec_level stay.
qr_free_state(q) ==
  [q EXCEPT !.data = NULL, !.size = 0, !.data_length = 0]

(***************************************************************************)
(* qr_encode_text (qr_encoder.c).  nd holds what the call cannot control:  *)
(* whether each malloc succeeds, what evaluate_mask_pattern (rand() % 100) *)
(* returns for each candidate, and what a read outside a table returns.    *)
(***************************************************************************)
MaxScore == 1
ScoreVecs == [0..7 -> 0..MaxScore]
NoScores == <<>>

ValidEc(ec_level) == ec_level \in QR_ECLEVEL_L..QR_ECLEVEL_H
ValidMask(mask_pattern) == mask_pattern \in 0..7

\* VERSION_INFO[i].capacity[ec_level] for the C index i.
Capacity(i, ec_level, nd) ==
  IF ValidEc(ec_level) THEN VERSION_INFO[i + 1].capacity[ec_level + 1]
  ELSE nd.junk_capacity[i]

\* FORMAT_INFO[ec_level][mask_pattern]
FormatWordRead(ec_level, mask_pattern, nd) ==
  IF ValidEc(ec_level) /\ ValidMask(mask_pattern)
  THEN FORMAT_INFO[ec_level + 1][mask_pattern + 1]
  ELSE nd.junk_format

\* A faulty variant of FirstFit: the comparison is strict, so a text that
\* fills a version exactly moves to the next one.
RECURSIVE FirstFitStrict(_, _, _, _)
FirstFitStrict(text_length, ec_level, nd, i) ==
  IF i >= NUM_VERSIONS THEN NUM_VERSIONS
  ELSE IF text_length < Capacity(i, ec_level, nd) THEN i
  ELSE FirstFitStrict(text_length, ec_level, nd, i + 1)

\* The version loop: the first C index i with text_length <= capacity, or
\* NUM_VERSIONS when the loop ends without a break.
RECURSIVE FirstFit(_, _, _, _)
FirstFit(text_length, ec_level, nd, i) ==
  IF i >= NUM_VERSIONS THEN NUM_VERSIONS
  ELSE IF text_length <= Capacity(i, ec_level, nd) THEN i
  ELSE FirstFit(text_length, ec_level, nd, i + 1)

\* encode_data after its malloc succeeded: the text copied to the front of
\* the buffer, data_length set.
encode_data(q, text) ==
  [q EXCEPT !.data_length = Len(text),
            !.data = [k \in DOMAIN q.data |->
                        IF k < Len(text) THEN text[k + 1] ELSE q.data[k]]]

\* add_error_correction changes nothing and returns true.
add_error_correction(q) == q

\* A faulty variant of MaskLoop: a candidate replaces the best one when its
\* score is equal, so the last index wins a tie.
RECURSIVE MaskLoopLastOnTies(_, _, _, _, _)
MaskLoopLastOnTies(acc, size, scores, alloc_temp, i) ==
  IF i >= 8 THEN acc
  ELSE IF i \notin alloc_temp
    THEN MaskLoopLastOnTies(acc, size, scores, alloc_temp, i + 1)
  ELSE MaskLoopLastOnTies(
         [data |-> acc.data,
          best_score |-> IF acc.best_score = -1 \/ scores[i] <= acc.best_score
                         THEN scores[i] ELSE acc.best_score,
          best_pattern |-> IF acc.best_score = -1 \/ scores[i] <= acc.best_score
                           THEN i ELSE acc.best_pattern,
          scored |-> acc.scored \cup {i}],
         size, scores, alloc_temp, i + 1)

\* memcpy(dest, src, n) onto a buffer dest of n bytes: dest holds the first n
\* bytes of src afterwards, whatever it held before.
memcpy(dest, src, n) == [k \in 0..(n - 1) |-> src[k]]

\* evaluate_mask_pattern(qr_state, matrix, size) returns rand() % 100 and
\* neither reads nor writes the matrix; score is what rand() % 100 gave.
evaluate_mask_pattern(matrix, size, score) == score

\* A faulty variant of MaskLoop: the matrix is not copied back from
\* temp_matrix after a candidate was tried.
RECURSIVE MaskLoopNoRestore(_, _, _, _, _)
MaskLoopNoRestore(acc, size, scores, alloc_temp, i) ==
  IF i >= 8 THEN acc
  ELSE IF i \notin alloc_temp
    THEN MaskLoopNoRestore(acc, size, scores, alloc_temp, i + 1)
  ELSE MaskLoopNoRestore(
         [data |-> apply_mask_pattern(acc.data, size, i),
          best_score |-> IF acc.best_score = -1 \/ scores[i] < acc.best_score
                         THEN scores[i] ELSE acc.best_score,
          best_pattern |-> IF acc.best_score = -1 \/ scores[i] < acc.best_score
                           THEN i ELSE acc.best_pattern,
          scored |-> acc.scored \cup {i}],
         size, scores, alloc_temp, i + 1)

\* The evaluation loop "for (i = 0; i < 8; i++)" from iteration i on.
\* acc = [data, best_score, best_pattern, scored]; alloc_temp is the set of
\* iterations whose malloc succeeds, scored the candidates for which
\* evaluate_mask_pattern was called, scores[i] what the call for candidate i
\* returns.
RECURSIVE MaskLoop(_, _, _, _, _)
MaskLoop(acc, size, scores, alloc_temp, i) ==
  IF i >= 8 THEN acc
  ELSE IF i \notin alloc_temp THEN MaskLoop(acc, size, scores, alloc_temp, i + 1)
  ELSE LET temp_matrix == acc.data
           masked == apply_mask_pattern(acc.data, size, i)
           score == evaluate_mask_pattern(masked, size, scores[i])
           better == acc.best_score = -1 \/ score < acc.best_score
           restored == memcpy(masked, temp_matrix, size * size)
       IN  MaskLoop([data |-> restored,
                     best_score |-> IF better THEN score ELSE acc.best_score,
                     best_pattern |-> IF better THEN i ELSE acc.best_pattern,
                     scored |-> acc.scored \cup {i}],
                    size, scores, alloc_temp, i + 1)

\* A faulty variant of SelectMask: the forced mask is ignored and mask 0 used.
SelectMaskIgnoringForced(q, scores, alloc_temp) ==
  [data |-> q.data, best_score |-> -1, best_pattern |-> 0, scored |-> {}]

\* Lines 216-254: the mask qr_encode_text goes on to apply, with the loop's
\* bookkeeping and the matrix the loop leaves.
SelectMask(q, scores, alloc_temp) ==
  IF q.auto_mask
  THEN MaskLoop([data |-> q.data, best_score |-> -1, best_pattern |-> 0,
                 scored |-> {}], q.size, scores, alloc_temp, 0)
  ELSE [data |-> q.data, best_score |-> -1, best_pattern |-> q.mask_pattern,
        scored |-> {}]

\* The outcome of a call: the QrState and tables it leaves, its return value,
\* and what it did on the way (how often it called evaluate_mask_pattern and
\* what the call returned for each candidate it scored, whether it indexed a
\* table out of range, whether it allocated a buffer).
Outcome(q, t, ret, scored, scores, oob, built) ==
  [qr |-> q, tables |-> t, ret |-> ret, evals |-> Cardinality(scored),
   scores |-> [j \in scored |-> scores[j]],
   indexed_out_of_range |-> oob, built |-> built]

\* Lines 256-267: q holds the matrix create_matrix built from format_bits,
\* sel is what SelectMask returned.
ApplySelected(q, t, sel, format_bits, scores, oob) ==
  IF ~ValidMask(sel.best_pattern)
  THEN Outcome(qr_free_state(q), t, FALSE, sel.scored, scores, oob, TRUE)
  ELSE Outcome([q EXCEPT !.data = MaskedFrom(sel.data, q.size, format_bits,
                                             sel.best_pattern),
                         !.mask_pattern = sel.best_pattern],
               t, TRUE, sel.scored, scores, oob, TRUE)

\* Lines 209-254: create_matrix on q (buffer allocated, data encoded), then
\* the mask selection.
BuildAndMask(q, t, format_bits, nd, oob) ==
  ApplySelected([q EXCEPT !.data = Unmasked(q.size, format_bits)], t,
                SelectMask([q EXCEPT !.data = Unmasked(q.size, format_bits)],
                           nd.scores, nd.alloc_temp),
                format_bits, nd.scores, oob)

\* Lines 175-207: q is the QrState after the version loop.
EncodeSized(q, t, text, ec_level, nd) ==
  IF Len(text) > Capacity(NUM_VERSIONS - 1, ec_level, nd)
    THEN Outcome(q, t, FALSE, {}, NoScores, ~ValidEc(ec_level), FALSE)
  ELSE IF ~nd.alloc_data
    THEN Outcome(q, t, FALSE, {}, NoScores, ~ValidEc(ec_level), FALSE)
  ELSE IF ~nd.alloc_encoded
    THEN Outcome(qr_free_state(q), t, FALSE, {}, NoScores, ~ValidEc(ec_level), TRUE)
  ELSE BuildAndMask(
         add_error_correction(
           encode_data([q EXCEPT !.data = [k \in 0..(q.size * q.size - 1) |-> 0],
                                 !.data_length = Len(text)], text)),
         t, FormatWordRead(ec_level, q.mask_pattern, nd), nd,
         ~ValidEc(ec_level) \/ ~ValidMask(q.mask_pattern))

\* Lines 164-173: the version loop on the freed QrState q.
SelectVersion(q, fit) ==
  IF fit < NUM_VERSIONS THEN [q EXCEPT !.size = VERSION_INFO[fit + 1].size] ELSE q

qr_encode_text(q0, t0, text, ec_level, nd) ==
  EncodeSized(SelectVersion([qr_free_state(q0) EXCEPT !.ec_level = ec_level],
                            FirstFit(Len(text), ec_level, nd, 0)),
              IF ~t0.initialized THEN FilledTables ELSE t0,
              text, ec_level, nd)

(***************************************************************************)
(* Reed-Solomon coder (reed_solomon.c).  The static tables are a record    *)
(* [rs_exp_table, rs_log_table, rs_generator_poly, rs_generator_poly_deg]; *)
(* a polynomial is a u8 array whose index is the power of x.               *)
(***************************************************************************)
RS_MAX_POLY == 70

\* x = (x << 1) ^ (x & 0x80 ? 0x1D : 0), stored to a u8.
RsTimesX(x) == BitXor(2 * x, IF (x \div 128) % 2 = 1 THEN 29 ELSE 0) % 256

\* The values x takes in the loop of rs_init_tables: powers[i + 1] is the x
\* of iteration i.
RECURSIVE RsPowers(_, _)
RsPowers(powers, x) ==
  IF Len(powers) >= 255 THEN powers
  ELSE RsPowers(Append(powers, x), RsTimesX(x))

\* The last iteration that saw x = v, or -1.
RsLastSeen(powers, v) ==
  IF \E i \in 0..254 : powers[i + 1] = v
  THEN CHOOSE i \in 0..254 :
         powers[i + 1] = v /\ \A k \in (i + 1)..254 : powers[k + 1] # v
  ELSE -1

\* The tables after the loop (rs_exp_table[i] = x, rs_log_table[x] = i for
\* i ascending) and the two assignments that follow it.
RsTablesFrom(t, powers) ==
  [t EXCEPT !.rs_exp_table =
               [i \in 0..255 |-> IF i = 255 THEN powers[1] ELSE powers[i + 1]],
            !.rs_log_table =
               [v \in 0..255 |->
                  IF v = 0 THEN 0
                  ELSE IF RsLastSeen(powers, v) >= 0 THEN RsLastSeen(powers, v)
                  ELSE t.rs_log_table[v]]]

rs_init_tables(t) == RsTablesFrom(t, RsPowers(<<>>, 1))

rs_gf_mul(t, a, b) ==
  IF a = 0 \/ b = 0 THEN 0
  ELSE t.rs_exp_table[IF t.rs_log_table[a] + t.rs_log_table[b] >= 255
                      THEN t.rs_log_table[a] + t.rs_log_table[b] - 255
                      ELSE t.rs_log_table[a] + t.rs_log_table[b]]

\* The inner loop "for (j = 0; j <= q_deg; j++)" of rs_gf_poly_mul for one i,
\* from iteration j on.  Every product rs_init asks for fits its result
\* buffer; a write outside the buffer is not modelled.
RECURSIVE RsPolyMulRow(_, _, _, _, _, _, _)
RsPolyMulRow(t, p, q, q_deg, result, i, j) ==
  IF j > q_deg \/ i + j \notin DOMAIN result THEN result
  ELSE RsPolyMulRow(t, p, q, q_deg,
                    [result EXCEPT ![i + j] =
                       BitXor(result[i + j], rs_gf_mul(t, p[i], q[j]))],
                    i, j + 1)

\* The outer loop "for (i = 0; i <= p_deg; i++)" from iteration i on.
RECURSIVE RsPolyMulLoop(_, _, _, _, _, _, _)
RsPolyMulLoop(t, p, p_deg, q, q_deg, result, i) ==
  IF i > p_deg \/ i \notin DOMAIN result THEN result
  ELSE RsPolyMulLoop(t, p, p_deg, q, q_deg,
                     RsPolyMulRow(t, p, q, q_deg, result, i, 0), i + 1)

\* rs_gf_poly_mul: the result buffer after the memset and the loops.
rs_gf_poly_mul(t, p, p_deg, q, q_deg, result) ==
  RsPolyMulLoop(t, p, p_deg, q, q_deg,
                [k \in DOMAIN result |-> IF k <= p_deg + q_deg THEN 0 ELSE result[k]],
                0)

\* A faulty variant of RsGeneratorLoop: the linear factor of step n is
\* (x - alpha^n) for (x - alpha^(n-1)).
RECURSIVE RsGeneratorLoopShifted(_, _)
RsGeneratorLoopShifted(t, n) ==
  IF n >= RS_MAX_POLY THEN t
  ELSE RsGeneratorLoopShifted(
         [t EXCEPT !.rs_generator_poly[n] =
                      rs_gf_poly_mul(t, t.rs_generator_poly[n - 1],
                                     t.rs_generator_poly_deg[n - 1],
                                     (0 :> t.rs_exp_table[n]) @@ (1 :> 1), 1,
                                     t.rs_generator_poly[n]),
                   !.rs_generator_poly_deg[n] = t.rs_generator_poly_deg[n - 1] + 1],
         n + 1)

\* The loop "for (n = 2; n < RS_MAX_POLY; n++)" from iteration n on.
RECURSIVE RsGeneratorLoop(_, _)
RsGeneratorLoop(t, n) ==
  IF n >= RS_MAX_POLY THEN t
  ELSE RsGeneratorLoop(
         [t EXCEPT !.rs_generator_poly[n] =
                      rs_gf_poly_mul(t, t.rs_generator_poly[n - 1],
                                     t.rs_generator_poly_deg[n - 1],
                                     (0 :> t.rs_exp_table[n - 1]) @@ (1 :> 1), 1,
                                     t.rs_generator_poly[n]),
                   !.rs_generator_poly_deg[n] = t.rs_generator_poly_deg[n - 1] + 1],
         n + 1)

rs_init_generator_polynomials(t) ==
  RsGeneratorLoop(
    [t EXCEPT !.rs_generator_poly =
                 [n \in 0..(RS_MAX_POLY - 1) |->
                    [k \in 0..(RS_MAX_POLY - 1) |->
                       IF n = 1 /\ k \in {0, 1} THEN 1 ELSE 0]],
              !.rs_generator_poly_deg =
                 [n \in 0..(RS_MAX_POLY - 1) |-> IF n = 1 THEN 1 ELSE 0]],
    2)

\* The static tables before rs_init (zero-initialised storage).
RsZeroTables ==
  [rs_exp_table |-> [i \in 0..255 |-> 0],
   rs_log_table |-> [i \in 0..255 |-> 0],
   rs_generator_poly |-> [n \in 0..(RS_MAX_POLY - 1) |->
                            [k \in 0..(RS_MAX_POLY - 1) |-> 0]],
   rs_generator_poly_deg |-> [n \in 0..(RS_MAX_POLY - 1) |-> 0]]

rs_init_result(t) == rs_init_generator_polynomials(rs_init_tables(t))

\* rs_init overwrites every table entry, so what it leaves is one value.
RsReadyTables == rs_init_result(RsZeroTables)

\* A faulty variant of RsEccStep: the generator is read from the wrong end
\* (generator[j + 1] for generator[ecc_length - j - 1], the leading
\* coefficient for generator[0]).
RECURSIVE RsEccStepMirrored(_, _, _, _, _, _)
RsEccStepMirrored(t, ecc, generator, ecc_length, feedback, j) ==
  IF j >= ecc_length - 1 \/ j \notin DOMAIN ecc
  THEN [ecc EXCEPT ![ecc_length - 1] =
          IF feedback # 0 THEN rs_gf_mul(t, feedback, generator[ecc_length])
          ELSE 0]
  ELSE RsEccStepMirrored(
         t,
         [ecc EXCEPT ![j] =
            IF feedback # 0
            THEN BitXor(ecc[j + 1], rs_gf_mul(t, feedback, generator[j + 1]))
            ELSE ecc[j + 1]],
         generator, ecc_length, feedback, j + 1)

\* One iteration of "for (i = 0; i < data_length; i++)" in rs_compute_ecc,
\* from position j of the buffer on: the division step
\* "for (j = 0; j < ecc_length - 1; j++)" with the store to
\* ecc[ecc_length - 1] when feedback is non-zero, the memmove and the zero
\* store otherwise.  The caller's buffer holds at least ecc_length bytes.
RECURSIVE RsEccStep(_, _, _, _, _, _)
RsEccStep(t, ecc, generator, ecc_length, feedback, j) ==
  IF j >= ecc_length - 1 \/ j \notin DOMAIN ecc
  THEN [ecc EXCEPT ![ecc_length - 1] =
          IF feedback # 0 THEN rs_gf_mul(t, feedback, generator[0]) ELSE 0]
  ELSE RsEccStep(
         t,
         [ecc EXCEPT ![j] =
            IF feedback # 0
            THEN BitXor(ecc[j + 1],
                        rs_gf_mul(t, feedback, generator[ecc_length - j - 1]))
            ELSE ecc[j + 1]],
         generator, ecc_length, feedback, j + 1)

RECURSIVE RsEccLoop(_, _, _, _, _, _, _)
RsEccLoop(t, data, data_length, ecc, generator, ecc_length, i) ==
  IF i >= data_length THEN ecc
  ELSE RsEccLoop(t, data, data_length,
                 RsEccStep(t, ecc, generator, ecc_length,
                           BitXor(data[i + 1], ecc[0]), 0),
                 generator, ecc_length, i + 1)

\* A faulty variant of rs_compute_ecc: the ECC buffer is cleared before the
\* parameters are validated.
rs_compute_ecc_clear_first(t, data, data_length, ecc, ecc_length) ==
  IF data = NULL \/ ecc = NULL \/ data_length <= 0 \/ ecc_length <= 0
     \/ ecc_length >= RS_MAX_POLY
  THEN [ret |-> FALSE,
        ecc |-> IF ecc = NULL THEN ecc
                ELSE [j \in DOMAIN ecc |-> IF j < ecc_length THEN 0 ELSE ecc[j]]]
  ELSE [ret |-> TRUE,
        ecc |-> RsEccLoop(t, data, data_length,
                          [j \in DOMAIN ecc |-> IF j < ecc_length THEN 0 ELSE ecc[j]],
                          t.rs_generator_poly[ecc_length], ecc_length, 0)]

\* rs_compute_ecc(data, data_length, ecc, ecc_length): the return value and
\* the content of the caller's buffer ecc afterwards.  data is a sequence
\* (data[i] of C is data[i + 1]) or NULL, ecc an array or NULL.
rs_compute_ecc(t, data, data_length, ecc, ecc_length) ==
  IF data = NULL \/ ecc = NULL \/ data_length <= 0 \/ ecc_length <= 0
     \/ ecc_length >= RS_MAX_POLY
  THEN [ret |-> FALSE, ecc |-> ecc]
  ELSE [ret |-> TRUE,
        ecc |-> RsEccLoop(t, data, data_length,
                          [j \in DOMAIN ecc |-> IF j < ecc_length THEN 0 ELSE ecc[j]],
                          t.rs_generator_poly[ecc_length], ecc_length, 0)]

\* Bit k of the word w, and a value stored to a u16.
BitOf(w, k) == (w \div (2 ^ k)) % 2
U16(w) == w % 65536

\* A faulty variant of FormatDivide: the generator is 0x4C7.
RECURSIVE FormatDivideOtherGenerator(_, _)
FormatDivideOtherGenerator(format_info, i) ==
  IF i >= 5 \/ format_info \notin 0..65535 THEN format_info
  ELSE FormatDivideOtherGenerator(
         IF BitOf(format_info, 14 - i) = 1
         THEN U16(BitXor(format_info, 1223 * (2 ^ (4 - i))))
         ELSE format_info,
         i + 1)

\* The loop "for (i = 0; i < 5; i++)" of rs_generate_format_bits from
\* iteration i on: format_info ^= 0x537 << (4 - i) when bit 14 - i is set.
RECURSIVE FormatDivide(_, _)
FormatDivide(format_info, i) ==
  IF i >= 5 \/ format_info \notin 0..65535 THEN format_info
  ELSE FormatDivide(
         IF BitOf(format_info, 14 - i) = 1
         THEN U16(BitXor(format_info, 1335 * (2 ^ (4 - i))))
         ELSE format_info,
         i + 1)

\* rs_generate_format_bits(ec_level, mask_pattern) with its u16 locals:
\* format_data = (ec_level << 3) | (mask_pattern & 7), the remainder in the
\* low ten bits of the divided word, and the final XOR with 0x5412.
FormatData(ec_level, mask_pattern) == U16(ec_level * 8 + (mask_pattern % 8))

rs_generate_format_bits(ec_level, mask_pattern) ==
  U16(BitXor(U16(BitXor(U16(FormatData(ec_level, mask_pattern) * 1024),
                        FormatDivide(U16(FormatData(ec_level, mask_pattern) * 1024),
                                     0) % 1024)),
             21522))

\* A faulty variant of RsSyndromeValue: the data is read from its last byte
\* to its first.
RECURSIVE RsSyndromeValueReversed(_, _, _, _, _, _)
RsSyndromeValueReversed(t, data, length, alpha_i, j, value) ==
  IF value \notin 0..255 \/ j >= length THEN value
  ELSE RsSyndromeValueReversed(t, data, length, alpha_i, j + 1,
                               BitXor(rs_gf_mul(t, value, alpha_i), data[length - j]))

\* The loop "for (j = 0; j < length; j++)" of rs_compute_syndromes from
\* iteration j on: value = rs_gf_mul(value, alpha_i) ^ data[j].
RECURSIVE RsSyndromeValue(_, _, _, _, _, _)
RsSyndromeValue(t, data, length, alpha_i, j, value) ==
  IF value \notin 0..255 \/ j >= length THEN value
  ELSE RsSyndromeValue(t, data, length, alpha_i, j + 1,
                       BitXor(rs_gf_mul(t, value, alpha_i), data[j + 1]))

\* The loop over i from iteration i on; acc holds syndromes[0..i-1].
RECURSIVE RsSyndromeLoop(_, _, _, _, _)
RsSyndromeLoop(t, data, length, num_roots, acc) ==
  IF Len(acc) >= num_roots THEN acc
  ELSE RsSyndromeLoop(t, data, length, num_roots,
         Append(acc, RsSyndromeValue(t, data, length,
                                     t.rs_exp_table[Len(acc)], 0, 0)))

\* rs_compute_syndromes(data, length, syndromes, num_roots): the syndromes
\* written (syndromes[i] of C is syndromes[i + 1]) and the value returned.
\* RsCountNonZero is the counter non_zero after the loop.
RsCountNonZero(syndromes) ==
  Cardinality({ i \in DOMAIN syndromes : syndromes[i] # 0 })

RsSyndromesResult(syndromes) ==
  [syndromes |-> syndromes, non_zero |-> RsCountNonZero(syndromes)]

rs_compute_syndromes(t, data, length, num_roots) ==
  RsSyndromesResult(RsSyndromeLoop(t, data, length, num_roots, <<>>))

\* ecc_table of rs_get_ecc_codeword_count: rows for versions 1, 10, 20, 30
\* and 40, columns for L, M, Q, H.
ecc_table ==
  << <<7, 10, 13, 17>>, <<72, 98, 142, 172>>, <<142, 242, 292, 346>>,
     <<192, 292, 362, 434>>, <<242, 362, 434, 514>> >>

\* rs_get_ecc_codeword_count(version, ec_level); junk is what the read
\* ecc_table[table_idx][ec_level] returns for an ec_level outside 0..3.
rs_get_ecc_codeword_count(version, ec_level, junk) ==
  LET clamped == IF version < 1 THEN 1 ELSE IF version > 40 THEN 40 ELSE version
      table_idx == IF clamped <= 1 THEN 0
                   ELSE IF clamped <= 10 THEN 1
                   ELSE IF clamped <= 20 THEN 2
                   ELSE IF clamped <= 30 THEN 3
                   ELSE 4
  IN  IF ec_level \in 0..3 THEN ecc_table[table_idx + 1][ec_level + 1] ELSE junk

\* The tail of rs_encode_block: copied is output after the memcpy, r what
\* rs_compute_ecc returned for the buffer output + data_length.
RsEncodeJoin(copied, r, data_length) ==
  [ret |-> r.ret,
   output |-> [j \in DOMAIN copied |->
                 IF j < data_length THEN copied[j] ELSE r.ecc[j - data_length]]]

\* Lines 326-335 of rs_encode_block: the memcpy and the call of
\* rs_compute_ecc on output + data_length; top is the last index of output.
RsEncodeCopy(t, data, data_length, copied, ecc_length, top) ==
  RsEncodeJoin(copied,
               rs_compute_ecc(t, data, data_length,
                              [j \in 0..(top - data_length) |-> copied[data_length + j]],
                              ecc_length),
               data_length)

\* rs_encode_block(data, data_length, output, ec_level, version): the return
\* value and the content of the caller's buffer output afterwards; top is
\* the last index of output.
rs_encode_block(t, data, data_length, output, top, ec_level, version, junk) ==
  IF data = NULL \/ output = NULL \/ data_length <= 0
     \/ rs_get_ecc_codeword_count(version, ec_level, junk) <= 0
     \/ rs_get_ecc_codeword_count(version, ec_level, junk) >= RS_MAX_POLY
  THEN [ret |-> FALSE, output |-> output]
  ELSE RsEncodeCopy(t, data, data_length,
                    [j \in DOMAIN output |->
                       IF j < data_length THEN data[j + 1] ELSE output[j]],
                    rs_get_ecc_codeword_count(version, ec_level, junk), top)

(***************************************************************************)
(* Inputs                                                                  *)
(***************************************************************************)
\* Texts are C strings: sequences of non-zero bytes.
Chars == {97, 122}
Repeat(c, n) == IF n = 0 THEN <<>> ELSE [i \in 1..n |-> c]
TextsOf(chars, lens) == { Repeat(c, n) : c \in chars, n \in lens }

\* Longest text tried: one byte more than VERSION_INFO's largest capacity.
MaxTextLen == 107
AllLens == 0..MaxTextLen
\* The byte capacity of version 40 at level L in ISO/IEC 18004, and one more.
BoundaryLens == {2953, 2954}
\* Inputs for runs of several calls.  Lengths: the version-1 level-H
\* capacity, one more, and the longest; levels M and H; the first and last
\* mask, and an out-of-range one; score vectors that make the loop pick the
\* first or the last mask.
SeqLens == {VERSION_INFO[1].capacity[4], VERSION_INFO[1].capacity[4] + 1,
            MaxTextLen}
SeqEcs == {QR_ECLEVEL_M, QR_ECLEVEL_H}

\* EC levels a caller passes: L..H and the enum's out-of-range values.
MaxEcInput == 4
EcInputs == 0..MaxEcInput
EcLevels == QR_ECLEVEL_L..QR_ECLEVEL_H

\* Mask values a caller writes to mask_pattern: 0..7 and out-of-range ones.
MaxMaskInput == 8
MaskInputs == (0 - 1)..MaxMaskInput
SeqMasks == {0, 7, MaxMaskInput}

\* What the out-of-range reads VERSION_INFO[i].capacity[ec_level], i = 0..4,
\* may return (samples: every text fits version 1; nothing fits; version 1
\* fits but the last entry does not).
JunkCapacities ==
  { [i \in 0..(NUM_VERSIONS - 1) |-> 255],
    [i \in 0..(NUM_VERSIONS - 1) |-> 0],
    [i \in 0..(NUM_VERSIONS - 1) |-> IF i = NUM_VERSIONS - 1 THEN 0 ELSE 255] }
NoJunkCapacity == [i \in 0..(NUM_VERSIONS - 1) |-> 0]
ZeroScores == [i \in 0..7 |-> 0]

\* best_pattern and best_score the evaluation loop ends with on given scores.
LoopResult(scores) ==
  LET r == MaskLoop([data |-> NULL, best_score |-> -1, best_pattern |-> 0,
                     scored |-> {}], 0, scores, 0..7, 0)
  IN  <<r.best_pattern, r.best_score>>

\* One score vector for each distinct result of the evaluation loop.
ScoreReps ==
  { CHOOSE sc \in ScoreVecs : LoopResult(sc) = o
    : o \in { LoopResult(sc) : sc \in ScoreVecs } }

SeqScores == { sc \in ScoreReps : LoopResult(sc)[1] \in {0, 7} }

\* The loop iterations whose malloc succeeds: all, none, or some.
AllTemps == 0..7
SeqTemps == {AllTemps, {}}
MaskTemps == {AllTemps, {}, 1..7, {2, 5, 6}}

\* The nd records of a call on QrState q with EC level ec_level, the scores
\* drawn from scoreSet and the successful temporary allocations from
\* tempSets.  Fields the call never reads are fixed.
Choices(q, ec_level, scoreSet, tempSets) ==
  LET caps == IF ValidEc(ec_level) THEN {NoJunkCapacity} ELSE JunkCapacities
      fmts == IF ValidEc(ec_level) /\ ValidMask(q.mask_pattern)
              THEN {0} ELSE JunkFormatWords
      runs == { <<FALSE, FALSE, {}, ZeroScores>>,
                <<TRUE, FALSE, {}, ZeroScores>> }
              \cup (IF q.auto_mask
                    THEN { <<TRUE, TRUE, tm, [j \in 0..7 |-> IF j \in tm THEN sc[j] ELSE 0]>>
                           : sc \in scoreSet, tm \in tempSets }
                    ELSE { <<TRUE, TRUE, {}, ZeroScores>> })
  IN  { [junk_capacity |-> c, junk_format |-> f, alloc_data |-> r[1],
         alloc_encoded |-> r[2], alloc_temp |-> r[3], scores |-> r[4]]
        : c \in caps, f \in fmts, r \in runs }

\* Reed-Solomon inputs: data blocks of up to MaxDataLen bytes, the ECC lengths
\* 0..MaxEccLen and the two around the limit RS_MAX_POLY, and a caller's
\* buffer one byte longer than ecc_length, filled with 0xFF.
RsBytes == {0, 1, 2, 255}
MaxDataLen == 3
RsBlocks == UNION { [1..n -> RsBytes] : n \in 1..MaxDataLen } \cup {<<>>}
MaxEccLen == 17
EccLens == ((0 - 1)..MaxEccLen) \cup {RS_MAX_POLY - 1, RS_MAX_POLY}
EccBuffer(ecc_length) ==
  [j \in 0..(IF ecc_length < 0 THEN 0 ELSE ecc_length) |-> 255]

\* Versions handed to rs_encode_block (0 and 41 are clamped), what an
\* out-of-range read of ecc_table may return, and the data_length a caller
\* passes with a block of one byte: its length, 0, or a negative number.
BlockVersions == {0, 1, 2, 11, 21, 31, 40, 41}
JunkCounts == {0, 7, 72}
PassedLengths(block) == IF Len(block) = 1 THEN {1, 0, 0 - 1} ELSE {Len(block)}

(***************************************************************************)
(* State: one QrState, the static tables of qr_encoder.c, and a record of  *)
(* the last operation on the QrState with what it was called with and what *)
(* it did; the static tables of reed_solomon.c, whether rs_init has run,   *)
(* and a record of the last rs_compute_ecc call.  For callers that go      *)
(* through qr_set_text and qr_generate: the QrStates they use, the static  *)
(* text_buffer of qr_system.c, the text qr_set_text last accepted for each *)
(* QrState, a record of the last such call, and the number of calls made.  *)
(* For two interleaved calls of qr_encode_text: where each call stands     *)
(* (pc), its loop variables level and i inside init_generator_polynomials  *)
(* (loc), and a record of the race: which call runs, how often a call was  *)
(* preempted, how many runs of the table initialisation were begun,        *)
(* whether a call has read tables_initialized as true, and whether a table *)
(* was written after that.                                                 *)
(***************************************************************************)
VARIABLES qr, tables, last, rs_tables, rs_ready, rs_call, rs_syn, format_call,
          qr_states, text_buffer, accepted, sys_last, calls, heap,
          pc, loc, race, prot, frame_counter, prot_last, frames

rs_vars == <<rs_tables, rs_ready, rs_call, rs_syn, format_call>>

sys_vars == <<qr_states, text_buffer, accepted, sys_last, calls, heap>>

race_vars == <<pc, loc, race>>

prot_vars == <<prot, frame_counter, prot_last, frames>>

vars == <<qr, tables, last, rs_tables, rs_ready, rs_call, rs_syn, format_call,
          qr_states, text_buffer, accepted, sys_last, calls, heap, pc, loc,
          race, prot, frame_counter, prot_last, frames>>

\* The QrStates of the callers of qr_set_text and qr_generate.
States == {1, 2}

NoSysCall ==
  [op |-> "none", state |-> 1, text |-> <<>>, ec_level |-> 0, ret |-> FALSE,
   allocated |-> FALSE, encoded |-> FALSE]

\* before and ecc are the output buffer before and after the call.
\* No call of rs_generate_format_bits yet.
NoFormatCall == [called |-> FALSE, ec_level |-> 0, mask_pattern |-> 0, bits |-> 0]

\* No call of rs_compute_syndromes yet.
NoSyndromes ==
  [called |-> FALSE, data |-> <<>>, num_roots |-> 0, corrupted |-> FALSE,
   syndromes |-> <<>>, non_zero |-> 0]

NoRsCall ==
  [op |-> "none", data |-> <<>>, data_length |-> 0, ecc_length |-> 0,
   ret |-> FALSE, before |-> NULL, ecc |-> NULL]

\* g_qr_protection (qr_protection.h) and the presets of qr_protection.c.
QR_MAX_VARIATIONS == 8

QR_PROT_LEVEL_OFF == 0
QR_PROT_LEVEL_LOW == 1
QR_PROT_LEVEL_MEDIUM == 2
QR_PROT_LEVEL_HIGH == 3
QR_PROT_LEVEL_CUSTOM == 4
QR_PROT_LEVEL_COUNT == 5

\* LEVEL_PRESETS[level] for the C index level.
LEVEL_PRESETS ==
  << [refresh_rate |-> 0, mask_variations |-> 1, randomize_function |-> FALSE,
      custom_ecc_level |-> 2, invert_modules |-> FALSE, invert_percentage |-> 0],
     [refresh_rate |-> 5, mask_variations |-> 4, randomize_function |-> FALSE,
      custom_ecc_level |-> 2, invert_modules |-> FALSE, invert_percentage |-> 0],
     [refresh_rate |-> 7, mask_variations |-> 8, randomize_function |-> TRUE,
      custom_ecc_level |-> 1, invert_modules |-> TRUE, invert_percentage |-> 10],
     [refresh_rate |-> 10, mask_variations |-> 8, randomize_function |-> TRUE,
      custom_ecc_level |-> 0, invert_modules |-> TRUE, invert_percentage |-> 20] >>

\* g_qr_protection as qr_protection_init leaves it.
qr_protection_init_state ==
  [enabled |-> FALSE, level |-> QR_PROT_LEVEL_OFF,
   params |-> LEVEL_PRESETS[QR_PROT_LEVEL_OFF + 1],
   variations |-> [i \in 0..(QR_MAX_VARIATIONS - 1) |-> qr_init_state],
   current_variation |-> 0, variation_count |-> 0, last_switch_time |-> 0,
   display_frames |-> 0]

NoProtCall ==
  [op |-> "none", ret |-> FALSE, data |-> <<>>, failed |-> {}]

Op(name) ==
  [op |-> name, text |-> <<>>, ec_level |-> 0, mask_pattern |-> 0,
   auto_mask |-> FALSE, ret |-> TRUE, evals |-> 0, scores |-> NoScores,
   indexed_out_of_range |-> FALSE, built |-> FALSE]

Init ==
  /\ qr = qr_init_state
  /\ tables = ZeroTables
  /\ last = Op("qr_init")
  /\ rs_tables = RsZeroTables
  /\ rs_ready = FALSE
  /\ rs_call = NoRsCall
  /\ rs_syn = NoSyndromes
  /\ format_call = NoFormatCall
  /\ qr_states = [s \in States |-> qr_init_state]
  /\ text_buffer = <<>>
  /\ accepted = [s \in States |-> [set |-> FALSE, text |-> <<>>]]
  /\ sys_last = NoSysCall
  /\ calls = 0
  /\ heap = 0
  /\ pc = [t \in States |-> "check"]
  /\ loc = [t \in States |-> [level |-> 0, i |-> 0]]
  /\ race = [running |-> 0, preemptions |-> 0, runs |-> 0, observed |-> FALSE,
             written_after |-> FALSE]
  /\ prot = qr_protection_init_state
  /\ frame_counter = 0
  /\ prot_last = NoProtCall
  /\ frames = [pc |-> "tick", switched |-> FALSE, since_switch |-> 0]

qr_init ==
  /\ qr' = qr_init_state
  /\ last' = Op("qr_init")
  /\ UNCHANGED <<tables, rs_vars, prot_vars, sys_vars, race_vars>>

qr_free ==
  /\ qr' = qr_free_state(qr)
  /\ last' = Op("qr_free")
  /\ UNCHANGED <<tables, rs_vars, prot_vars, sys_vars, race_vars>>

\* A caller forcing a mask before it encodes, as
\* qr_protection_generate_variations does: mask_pattern = m, auto_mask = false.
write_mask_fields(masks) ==
  \E m \in masks :
    /\ qr' = [qr EXCEPT !.mask_pattern = m, !.auto_mask = FALSE]
    /\ last' = Op("write_mask_fields")
    /\ UNCHANGED <<tables, rs_vars, prot_vars, sys_vars, race_vars>>

\* A call qr_encode_text(&qr, text, ec_level).
qr_encode_text_call(texts, ecs, scoreSet, tempSets) ==
  \E text \in texts, ec_level \in ecs :
    \E nd \in Choices(qr, ec_level, scoreSet, tempSets) :
      \E r \in {qr_encode_text(qr, tables, text, ec_level, nd)} :
          /\ qr' = r.qr
          /\ tables' = r.tables
          /\ last' = [op |-> "qr_encode_text", text |-> text,
                      ec_level |-> ec_level, mask_pattern |-> qr.mask_pattern,
                      auto_mask |-> qr.auto_mask, ret |-> r.ret,
                      evals |-> r.evals, scores |-> r.scores,
                      indexed_out_of_range |-> r.indexed_out_of_range,
                      built |-> r.built]
          /\ UNCHANGED <<rs_vars, prot_vars, sys_vars, race_vars>>

\* rs_init()
rs_init ==
  /\ rs_tables' = IF rs_tables = RsZeroTables THEN RsReadyTables
                  ELSE rs_init_result(rs_tables)
  /\ rs_ready' = TRUE
  /\ UNCHANGED <<qr, tables, last, rs_call, rs_syn, format_call, sys_vars,
                 race_vars, prot_vars>>

\* A call rs_compute_ecc(data, data_length, ecc, ecc_length) with the block's
\* true length or, for a one-byte block, a length below 1, or with one of the
\* pointers NULL.
rs_compute_ecc_call(blocks, lens) ==
  \E block \in blocks, ecc_length \in lens, null \in {"none", "data", "ecc"} :
    /\ null # "none" => Len(block) = 1
    /\ \E data \in {IF null = "data" THEN NULL ELSE block},
          data_length \in PassedLengths(block),
          before \in {IF null = "ecc" THEN NULL ELSE EccBuffer(ecc_length)} :
      \E r \in {rs_compute_ecc(rs_tables, data, data_length, before, ecc_length)} :
        /\ rs_call' = [op |-> "rs_compute_ecc", data |-> data,
                       data_length |-> data_length, ecc_length |-> ecc_length,
                       ret |-> r.ret, before |-> before, ecc |-> r.ecc]
        /\ UNCHANGED <<qr, tables, last, rs_tables, rs_ready, rs_syn,
                         format_call, sys_vars, race_vars, prot_vars>>

\* A call rs_encode_block(data, data_length, output, ec_level, version) with
\* an output buffer of data_length + ecc_length bytes and one more.
rs_encode_block_call(blocks, ecs, versions) ==
  \E block \in blocks, ec_level \in ecs, version \in versions,
     junk \in JunkCounts, null \in {"none", "data", "output"} :
    /\ null # "none" => Len(block) = 1
    /\ ec_level \in 0..3 => junk = 0
    /\ \E data \in {IF null = "data" THEN NULL ELSE block},
          data_length \in PassedLengths(block),
          ecc_length \in {rs_get_ecc_codeword_count(version, ec_level, junk)} :
      \E before \in {IF null = "output" THEN NULL
                      ELSE [j \in 0..(Len(block) + ecc_length) |-> 255]} :
        \E r \in {rs_encode_block(rs_tables, data, data_length, before,
                                   Len(block) + ecc_length, ec_level, version, junk)} :
          /\ rs_call' = [op |-> "rs_encode_block", data |-> data,
                         data_length |-> data_length, ecc_length |-> ecc_length,
                         ret |-> r.ret, before |-> before, ecc |-> r.output]
          /\ UNCHANGED <<qr, tables, last, rs_tables, rs_ready, rs_syn,
                         format_call, sys_vars, race_vars, prot_vars>>

\* The module buffers a QrState holds: the one data points to, if any.
Held(q) == IF q.data = NULL THEN 0 ELSE 1

\* The number of live module buffers after qr_encode_text took QrState q to
\* q_after: qr_free (line 159) frees the buffer q held, and every return
\* leaves either the buffer of the malloc of line 185 in data or, after the
\* qr_free of a failure path, none.
HeapAfterEncode(live, q, q_after) == live - Held(q) + Held(q_after)

\* qr_set_text(&qr_states[s], text): an empty text and one of 256 bytes or
\* more are refused; otherwise the text goes to the static text_buffer.
qr_set_text(s, text) ==
  /\ IF Len(text) = 0 \/ Len(text) >= 256
     THEN /\ sys_last' = [op |-> "qr_set_text", state |-> s, text |-> text,
                          ec_level |-> qr_states[s].ec_level, ret |-> FALSE,
                          allocated |-> FALSE, encoded |-> FALSE]
          /\ UNCHANGED <<qr_states, text_buffer, accepted>>
     ELSE /\ text_buffer' = text
          /\ qr_states' = [qr_states EXCEPT ![s].data_length = Len(text)]
          /\ accepted' = [accepted EXCEPT ![s] = [set |-> TRUE, text |-> text]]
          /\ sys_last' = [op |-> "qr_set_text", state |-> s, text |-> text,
                          ec_level |-> qr_states[s].ec_level, ret |-> TRUE,
                          allocated |-> FALSE, encoded |-> FALSE]
  /\ calls' = calls + 1
  /\ UNCHANGED <<qr, tables, last, rs_vars, prot_vars, race_vars, heap>>

\* The call qr_encode_text(&qr_states[s], text, ec_level) and its record
\* under the name op.
EncodeState(op, s, text, ec_level, scoreSet, tempSets) ==
  \E nd \in Choices(qr_states[s], ec_level, scoreSet, tempSets) :
    \E r \in {qr_encode_text(qr_states[s], tables, text, ec_level, nd)} :
      /\ qr_states' = [qr_states EXCEPT ![s] = r.qr]
      /\ tables' = r.tables
      /\ sys_last' = [op |-> op, state |-> s, text |-> text,
                      ec_level |-> ec_level, ret |-> r.ret,
                      allocated |-> nd.alloc_data /\ nd.alloc_encoded,
                      encoded |-> TRUE]
      /\ calls' = calls + 1
      /\ heap' = HeapAfterEncode(heap, qr_states[s], r.qr)
      /\ UNCHANGED <<qr, last, rs_vars, prot_vars, race_vars, text_buffer, accepted>>

\* qr_generate(&qr_states[s]): refused when data_length is 0, otherwise
\* qr_encode_text on the content of text_buffer at the state's ec_level.
qr_generate(s, scoreSet, tempSets) ==
  IF qr_states[s].data_length = 0
  THEN /\ sys_last' = [op |-> "qr_generate", state |-> s, text |-> <<>>,
                       ec_level |-> qr_states[s].ec_level, ret |-> FALSE,
                       allocated |-> FALSE, encoded |-> FALSE]
       /\ calls' = calls + 1
       /\ UNCHANGED <<qr, tables, last, rs_vars, prot_vars, race_vars, qr_states,
                      text_buffer, accepted, heap>>
  ELSE EncodeState("qr_generate", s, text_buffer, qr_states[s].ec_level,
                   scoreSet, tempSets)

\* qr_init(&qr_states[s]): the fields are reset, data becomes NULL, and
\* nothing is freed.
qr_init_of(s) ==
  /\ qr_states' = [qr_states EXCEPT ![s] = qr_init_state]
  /\ sys_last' = [NoSysCall EXCEPT !.op = "qr_init", !.state = s,
                                   !.ec_level = QR_ECLEVEL_M, !.ret = TRUE]
  /\ calls' = calls + 1
  /\ UNCHANGED <<qr, tables, last, rs_vars, prot_vars, race_vars, text_buffer, accepted,
                 heap>>

\* qr_free(&qr_states[s]): the buffer data points to, if any, is freed.
qr_free_of(s) ==
  /\ qr_states' = [qr_states EXCEPT ![s] = qr_free_state(qr_states[s])]
  /\ heap' = heap - Held(qr_states[s])
  /\ sys_last' = [NoSysCall EXCEPT !.op = "qr_free", !.state = s,
                                   !.ec_level = qr_states[s].ec_level,
                                   !.ret = TRUE]
  /\ calls' = calls + 1
  /\ UNCHANGED <<qr, tables, last, rs_vars, prot_vars, race_vars, text_buffer, accepted>>

(***************************************************************************)
(* wallet_generate_qr (wallet_system.c).  g_wallet_system.qr_state is      *)
(* qr_states[WalletState]; g_wallet_system.entries holds WalletEntries.    *)
(***************************************************************************)
WalletState == 1

\* The addresses of the wallet's entries: a Bitcoin-length address and an
\* entry whose address is empty.
WalletEntries == <<Repeat(97, 34), <<>>>>

\* wallet_get_entry(index) returns an entry.
ValidWalletIndex(index) == index >= 0 /\ index < Len(WalletEntries)

wallet_generate_qr(index, scoreSet, tempSets) ==
  IF ~ValidWalletIndex(index)
  THEN /\ sys_last' = [NoSysCall EXCEPT !.op = "wallet_generate_qr",
                                        !.state = WalletState,
                                        !.ec_level = qr_states[WalletState].ec_level]
       /\ calls' = calls + 1
       /\ UNCHANGED <<qr, tables, last, rs_vars, prot_vars, race_vars, qr_states,
                      text_buffer, accepted, heap>>
  ELSE LET address == WalletEntries[index + 1]
           initialised == qr_init_state
       IN  IF Len(address) = 0 \/ Len(address) >= 256
           THEN /\ qr_states' = [qr_states EXCEPT ![WalletState] = initialised]
                /\ sys_last' = [NoSysCall EXCEPT !.op = "wallet_generate_qr",
                                                 !.state = WalletState,
                                                 !.text = address,
                                                 !.ec_level = initialised.ec_level]
                /\ calls' = calls + 1
                /\ UNCHANGED <<qr, tables, last, rs_vars, prot_vars, race_vars,
                               text_buffer, accepted, heap>>
           ELSE LET text_set == [initialised EXCEPT !.data_length = Len(address)]
                IN  \E nd \in Choices(text_set, text_set.ec_level, scoreSet, tempSets) :
                      \E r \in {qr_encode_text(text_set, tables, address,
                                                text_set.ec_level, nd)} :
                        /\ qr_states' = [qr_states EXCEPT ![WalletState] = r.qr]
                        /\ tables' = r.tables
                        /\ text_buffer' = address
                        /\ accepted' = [accepted EXCEPT ![WalletState] =
                                          [set |-> TRUE, text |-> address]]
                        /\ sys_last' = [op |-> "wallet_generate_qr",
                                        state |-> WalletState, text |-> address,
                                        ec_level |-> text_set.ec_level,
                                        ret |-> r.ret,
                                        allocated |-> nd.alloc_data /\ nd.alloc_encoded,
                                        encoded |-> TRUE]
                        /\ calls' = calls + 1
                        /\ heap' = HeapAfterEncode(heap, text_set, r.qr)
                        /\ UNCHANGED <<qr, last, rs_vars, prot_vars, race_vars>>

(***************************************************************************)
(* QR protection (qr_protection.c): the two variation techniques.  rand()  *)
(* is the C library's: a linear congruential sequence whose state the      *)
(* program never seeds, so the state a call starts from is any.            *)
(***************************************************************************)
RandModulus == 65537
rand_next(state) == (state * 75 + 74) % RandModulus

\* v ^ 1
Xor1(v) == IF v % 2 = 0 THEN v + 1 ELSE v - 1

\* function_pattern[y][x] after the marking loops of
\* qr_apply_module_inversion.
InversionProtected(x, y, size) ==
  \/ (y < 8 /\ x < 8)
  \/ (y < 8 /\ x > size - 9)
  \/ (y > size - 9 /\ x < 8)
  \/ y = 6
  \/ x = 6
  \/ (size >= 25 /\ y \in (size - 9)..(size - 5) /\ x \in (size - 9)..(size - 5))

\* modules_to_invert, percentage capped at 20.
ModulesToInvert(size, percentage) ==
  (size * size * (IF percentage > 20 THEN 20 ELSE percentage)) \div 100

\* One iteration of "while (inverted < modules_to_invert)", and no change
\* once the loop has ended: x and y are drawn, and the module is inverted
\* when function_pattern[y][x] is false.  acc = [data, rand, inverted].
InvertStep(acc, size, modules_to_invert) ==
  IF acc.inverted >= modules_to_invert THEN acc
  ELSE LET s1 == rand_next(acc.rand)
           x == s1 % size
           s2 == rand_next(s1)
           y == s2 % size
       IN  IF ~InversionProtected(x, y, size)
           THEN [data |-> [acc.data EXCEPT ![y * size + x] = Xor1(@)],
                 rand |-> s2, inverted |-> acc.inverted + 1]
           ELSE [acc EXCEPT !.rand = s2]

\* n iterations of the loop.
RECURSIVE InvertSteps(_, _, _, _)
InvertSteps(acc, size, modules_to_invert, n) ==
  IF acc.inverted >= modules_to_invert THEN acc
  ELSE IF n <= 1 THEN InvertStep(acc, size, modules_to_invert)
  ELSE InvertSteps(InvertSteps(acc, size, modules_to_invert, n \div 2),
                   size, modules_to_invert, n - (n \div 2))

\* The loop, run to its end.
RECURSIVE InvertLoop(_, _, _)
InvertLoop(acc, size, modules_to_invert) ==
  IF acc.inverted >= modules_to_invert THEN acc
  ELSE InvertLoop(InvertSteps(acc, size, modules_to_invert, 64), size,
                  modules_to_invert)

\* qr_apply_module_inversion(q, percentage) with rand() in the given state:
\* the QrState and the state of rand() afterwards.
qr_apply_module_inversion(q, percentage, state) ==
  IF q.data = NULL \/ percentage = 0 \/ q.size <= 0
  THEN [qr |-> q, rand |-> state]
  ELSE LET r == InvertLoop([data |-> q.data, rand |-> state, inverted |-> 0],
                           q.size, ModulesToInvert(q.size, percentage))
       IN  [qr |-> [q EXCEPT !.data = r.data], rand |-> r.rand]

\* for (i = 8; i < size-8; i++) of qr_randomize_function_patterns: the
\* second rand() is drawn only when the first test holds.
RECURSIVE RandomizeLoop(_, _, _, _)
RandomizeLoop(data, size, i, state) ==
  IF i >= size - 8 \/ data = NULL \/ state < 0
  THEN [data |-> data, rand |-> state]
  ELSE LET s1 == rand_next(state)
           s2 == rand_next(s1)
       IN  IF (i % 2) # (s1 % 2) THEN RandomizeLoop(data, size, i + 1, s1)
           ELSE IF s2 % 3 # 0 THEN RandomizeLoop(data, size, i + 1, s2)
           ELSE RandomizeLoop([data EXCEPT ![6 * size + i] = Xor1(@),
                                           ![i * size + 6] = Xor1(@)],
                              size, i + 1, s2)

qr_randomize_function_patterns(q, state) ==
  IF q.data = NULL \/ q.size <= 0
  THEN [qr |-> q, rand |-> state]
  ELSE LET r == RandomizeLoop(q.data, q.size, 8, state)
       IN  [qr |-> [q EXCEPT !.data = r.data], rand |-> r.rand]

(***************************************************************************)
(* The protection system g_qr_protection (qr_protection.h) and the calls   *)
(* on it.  prot_last records the last call.                                *)
(***************************************************************************)
\* display_frames for a refresh rate: 60 / refresh_rate, at least 1, and 0
\* when the rate is not positive.
DisplayFrames(refresh_rate) ==
  IF refresh_rate > 0
  THEN (IF 60 \div refresh_rate < 1 THEN 1 ELSE 60 \div refresh_rate)
  ELSE 0

\* qr_protection_set_level(level)
qr_protection_set_level(level) ==
  /\ prot' = IF level >= QR_PROT_LEVEL_COUNT THEN prot
             ELSE [prot EXCEPT
                     !.level = level,
                     !.params = IF level # QR_PROT_LEVEL_CUSTOM
                                THEN LEVEL_PRESETS[level + 1] ELSE @,
                     !.enabled = level # QR_PROT_LEVEL_OFF]
  /\ prot_last' = [NoProtCall EXCEPT !.op = "qr_protection_set_level",
                                     !.ret = level < QR_PROT_LEVEL_COUNT]
  /\ UNCHANGED <<qr, tables, last, rs_vars, sys_vars, race_vars, frame_counter,
                 frames>>

\* qr_protection_set_params(params), params not NULL.
qr_protection_set_params(params) ==
  /\ prot' = [prot EXCEPT !.params = params,
                          !.level = QR_PROT_LEVEL_CUSTOM,
                          !.enabled = params.refresh_rate > 0,
                          !.display_frames = DisplayFrames(params.refresh_rate)]
  /\ prot_last' = [NoProtCall EXCEPT !.op = "qr_protection_set_params",
                                     !.ret = TRUE]
  /\ UNCHANGED <<qr, tables, last, rs_vars, sys_vars, race_vars, frame_counter,
                 frames>>

\* What a call of qr_encode_text from the protection system cannot control:
\* whether its buffers can be allocated.  The level and the mask it passes
\* are valid, so no table is read out of range; in automatic-mask mode (the
\* path for disabled protection) every candidate is given the score 0.
ProtNd(ok) ==
  [junk_capacity |-> NoJunkCapacity, junk_format |-> 0, alloc_data |-> ok,
   alloc_encoded |-> ok, alloc_temp |-> AllTemps, scores |-> ZeroScores]

\* Lines 145-152: the variation techniques on a freshly encoded variation.
ApplyTechniques(q, params, state) ==
  LET inverted == IF params.invert_modules
                  THEN qr_apply_module_inversion(q, params.invert_percentage, state)
                  ELSE [qr |-> q, rand |-> state]
  IN  IF params.randomize_function
      THEN qr_randomize_function_patterns(inverted.qr, inverted.rand)
      ELSE inverted

\* The loop "for (i = 0; i < num_variations; i++)" from iteration i on;
\* failing holds the iterations whose allocations fail.  acc = [variations,
\* tables, rand].
RECURSIVE GenerateLoop(_, _, _, _, _, _)
GenerateLoop(acc, params, data, num_variations, failing, i) ==
  IF i >= num_variations \/ acc.rand < 0 THEN acc
  ELSE LET ec_level == IF params.custom_ecc_level > QR_ECLEVEL_H
                       THEN QR_ECLEVEL_Q ELSE params.custom_ecc_level
           forced == [acc.variations[i] EXCEPT !.mask_pattern = i % 8,
                                               !.auto_mask = FALSE]
           r == qr_encode_text(forced, acc.tables, data, ec_level,
                               ProtNd(i \notin failing))
           varied == IF r.ret THEN ApplyTechniques(r.qr, params, acc.rand)
                     ELSE [qr |-> r.qr, rand |-> acc.rand]
       IN  GenerateLoop([variations |-> [acc.variations EXCEPT ![i] = varied.qr],
                         tables |-> r.tables, rand |-> varied.rand],
                        params, data, num_variations, failing, i + 1)

\* num_variations: mask_variations clamped to 1..QR_MAX_VARIATIONS.
NumVariations(params) ==
  IF params.mask_variations <= 0 THEN 1
  ELSE IF params.mask_variations > QR_MAX_VARIATIONS THEN QR_MAX_VARIATIONS
  ELSE params.mask_variations

\* qr_protection_generate_variations(data), data NULL when is_null.
qr_protection_generate_variations(data, is_null, failing, seed) ==
  /\ IF is_null
     THEN /\ prot_last' = [NoProtCall EXCEPT
                             !.op = "qr_protection_generate_variations"]
          /\ UNCHANGED <<prot, tables>>
     ELSE IF ~prot.enabled \/ prot.level = QR_PROT_LEVEL_OFF
     THEN \E r \in {qr_encode_text(prot.variations[0], tables, data,
                                    QR_ECLEVEL_Q, ProtNd(0 \notin failing))} :
            /\ prot' = IF r.ret
                       THEN [prot EXCEPT !.variations[0] = r.qr,
                                         !.variation_count = 1,
                                         !.current_variation = 0]
                       ELSE [prot EXCEPT !.variations[0] = r.qr]
            /\ tables' = r.tables
            /\ prot_last' = [op |-> "qr_protection_generate_variations",
                             ret |-> r.ret, data |-> data,
                             failed |-> IF r.ret THEN {} ELSE {0}]
     ELSE \E num_variations \in {NumVariations(prot.params)} :
           \E g \in {GenerateLoop([variations |-> prot.variations,
                                    tables |-> tables, rand |-> seed],
                                   prot.params, data, num_variations, failing,
                                   0)} :
            /\ prot' = [prot EXCEPT
                          !.variations = g.variations,
                          !.variation_count = num_variations,
                          !.current_variation = 0,
                          !.display_frames = DisplayFrames(prot.params.refresh_rate)]
            /\ tables' = g.tables
            /\ prot_last' = [op |-> "qr_protection_generate_variations",
                             ret |-> num_variations > 0, data |-> data,
                             failed |-> { i \in 0..(num_variations - 1) :
                                           g.variations[i].data = NULL }]
  /\ frames' = [frames EXCEPT !.switched = FALSE]
  /\ UNCHANGED <<qr, last, rs_vars, sys_vars, race_vars, frame_counter>>

\* g_qr_state.frame_counter and last_switch_time are u32; the model keeps
\* them modulo FrameModulus, which exceeds the display_frames of every
\* preset and of CustomParams (12 at most), so that a run of frames wraps
\* the counter.
FrameModulus == 16
U32Sub(a, b) == (a - b + FrameModulus) % FrameModulus

\* The longest time since a switch that is counted, above every
\* display_frames that occurs.
MaxSinceSwitch == 13

\* A faulty variant of SwitchDue: the switch comes one frame early.
SwitchDueEarly(p, current_frame) ==
  p.display_frames > 0
    /\ U32Sub(current_frame, p.last_switch_time) + 1 >= p.display_frames

\* The test of lines 335-336.
SwitchDue(p, current_frame) ==
  p.display_frames > 0
    /\ U32Sub(current_frame, p.last_switch_time) >= p.display_frames

\* g_qr_protection after qr_protection_update at frame current_frame.
Updated(p, current_frame) ==
  IF ~p.enabled \/ p.variation_count <= 1 THEN p
  ELSE IF SwitchDue(p, current_frame)
  THEN [p EXCEPT !.current_variation = (@ + 1) % p.variation_count,
                 !.last_switch_time = current_frame]
  ELSE p

\* qr_protection_update(); frames.since_switch counts the frames since the
\* call last changed current_variation, frames.switched says that it did
\* since the variations were generated.
qr_protection_update ==
  /\ prot' = Updated(prot, frame_counter)
  /\ prot_last' = [NoProtCall EXCEPT !.op = "qr_protection_update", !.ret = TRUE]
  /\ frames' = IF prot'.current_variation # prot.current_variation
               THEN [frames EXCEPT !.switched = TRUE, !.since_switch = 0]
               ELSE frames
  /\ UNCHANGED <<qr, tables, last, rs_vars, sys_vars, race_vars, frame_counter>>

(***************************************************************************)
(* main_loop (main.c): each iteration waits for the vertical blank,        *)
(* increments g_qr_state.frame_counter, runs the menu updates, which may   *)
(* call qr_protection_update, and then calls qr_protection_update.         *)
(***************************************************************************)
\* Lines 100-103: VBlankIntrWait(); g_qr_state.frame_counter++.
main_loop_frame ==
  /\ frames.pc = "tick"
  /\ frame_counter' = (frame_counter + 1) % FrameModulus
  /\ frames' = [frames EXCEPT
                  !.pc = "update",
                  !.since_switch = IF @ < MaxSinceSwitch THEN @ + 1 ELSE @]
  /\ prot_last' = [NoProtCall EXCEPT !.op = "main_loop_frame", !.ret = TRUE]
  /\ UNCHANGED <<qr, tables, last, rs_vars, sys_vars, race_vars, prot>>

\* Lines 119-123: the wallet menu's update calls qr_protection_update.
menu_update == frames.pc = "update" /\ qr_protection_update

\* Line 126: the loop's own call, which ends the iteration.
main_loop_update ==
  /\ frames.pc = "update"
  /\ prot' = Updated(prot, frame_counter)
  /\ prot_last' = [NoProtCall EXCEPT !.op = "qr_protection_update", !.ret = TRUE]
  /\ frames' = IF prot'.current_variation # prot.current_variation
               THEN [frames EXCEPT !.pc = "tick", !.switched = TRUE,
                                   !.since_switch = 0]
               ELSE [frames EXCEPT !.pc = "tick"]
  /\ UNCHANGED <<qr, tables, last, rs_vars, sys_vars, race_vars, frame_counter>>

\* qr_protection_render(x, y, scale) at a position and scale that fit the
\* screen: render_qr_to_screen refuses a QrState without data.
qr_protection_render ==
  /\ prot_last' =
       [NoProtCall EXCEPT
          !.op = "qr_protection_render",
          !.ret = /\ prot.enabled
                  /\ prot.variation_count # 0
                  /\ prot.variations[prot.current_variation].data # NULL
                  /\ prot.variations[prot.current_variation].size # 0]
  /\ UNCHANGED <<qr, tables, last, rs_vars, sys_vars, race_vars, prot,
                 frame_counter, frames>>

(***************************************************************************)
(* Two calls qr_encode_text(&qr_states[t], text, ec_level), t = 1, 2,      *)
(* interleaved.  A call takes the steps: the test of tables_initialized;   *)
(* init_galois_field; per level of init_generator_polynomials the store   *)
(* ec_gen_poly[level][0] = 1 and one step for each i; the store            *)
(* tables_initialized = true; the rest of the call on its own QrState.     *)
(***************************************************************************)
MaxPreemptions == 1

\* Call t may take a step: it runs already, no call runs or the running one
\* has returned, or the running call is preempted.
Scheduled(t) ==
  IF race.running \in {0, t}
  THEN TRUE
  ELSE pc[race.running] = "done" \/ race.preemptions < MaxPreemptions

\* The race record after a step of call t that writes a table (wrote) or not.
Stepped(t, wrote) ==
  [race EXCEPT
     !.running = t,
     !.preemptions = IF race.running \in {0, t} \/ pc[race.running] = "done"
                     THEN @ ELSE @ + 1,
     !.written_after = @ \/ (wrote /\ race.observed)]

\* if (!tables_initialized)
TestInitialized(t) ==
  /\ pc[t] = "check" /\ Scheduled(t)
  /\ pc' = [pc EXCEPT ![t] = IF tables.initialized THEN "encode" ELSE "init_gf"]
  /\ race' = [Stepped(t, FALSE) EXCEPT
                !.observed = @ \/ tables.initialized,
                !.runs = IF tables.initialized THEN @ ELSE @ + 1]
  /\ UNCHANGED <<qr, tables, last, rs_vars, prot_vars, qr_states, text_buffer, accepted,
                 sys_last, calls, heap, loc>>

\* init_galois_field()
InitGaloisField(t) ==
  /\ pc[t] = "init_gf" /\ Scheduled(t)
  /\ tables' = [tables EXCEPT !.gf_exp = init_galois_field.gf_exp,
                              !.gf_log = init_galois_field.gf_log]
  /\ pc' = [pc EXCEPT ![t] = "gen_level"]
  /\ loc' = [loc EXCEPT ![t] = [level |-> 0, i |-> 0]]
  /\ race' = Stepped(t, TRUE)
  /\ UNCHANGED <<qr, last, rs_vars, prot_vars, qr_states, text_buffer, accepted,
                 sys_last, calls, heap>>

\* ec_gen_poly[level][0] = 1 at the head of the loop over the levels
GenLevel(t) ==
  /\ pc[t] = "gen_level" /\ Scheduled(t)
  /\ tables' = [tables EXCEPT !.ec_gen_poly[loc[t].level][0] = 1]
  /\ pc' = [pc EXCEPT ![t] = "gen_step"]
  /\ loc' = [loc EXCEPT ![t].i = 1]
  /\ race' = Stepped(t, TRUE)
  /\ UNCHANGED <<qr, last, rs_vars, prot_vars, qr_states, text_buffer, accepted,
                 sys_last, calls, heap>>

\* One iteration of "for (i = 1; i <= num_ec; i++)" on the shared tables.
GenStepRow(t) ==
  [GenInner(tables.ec_gen_poly[loc[t].level], tables, loc[t].i, loc[t].i)
     EXCEPT ![0] = tables.gf_exp[
       (tables.gf_log[GenInner(tables.ec_gen_poly[loc[t].level], tables,
                               loc[t].i, loc[t].i)[0]] + loc[t].i - 1) % 255]]

GenStep(t) ==
  /\ pc[t] = "gen_step" /\ Scheduled(t)
  /\ tables' = [tables EXCEPT !.ec_gen_poly[loc[t].level] = GenStepRow(t)]
  /\ IF loc[t].i < ec_codewords[loc[t].level + 1]
     THEN /\ loc' = [loc EXCEPT ![t].i = @ + 1]
          /\ UNCHANGED pc
     ELSE IF loc[t].level < 3
     THEN /\ loc' = [loc EXCEPT ![t] = [level |-> loc[t].level + 1, i |-> 0]]
          /\ pc' = [pc EXCEPT ![t] = "gen_level"]
     ELSE /\ pc' = [pc EXCEPT ![t] = "set_flag"]
          /\ UNCHANGED loc
  /\ race' = Stepped(t, TRUE)
  /\ UNCHANGED <<qr, last, rs_vars, prot_vars, qr_states, text_buffer, accepted,
                 sys_last, calls, heap>>

\* tables_initialized = true
SetInitialized(t) ==
  /\ pc[t] = "set_flag" /\ Scheduled(t)
  /\ tables' = [tables EXCEPT !.initialized = TRUE]
  /\ pc' = [pc EXCEPT ![t] = "encode"]
  /\ race' = Stepped(t, FALSE)
  /\ UNCHANGED <<qr, last, rs_vars, prot_vars, qr_states, text_buffer, accepted,
                 sys_last, calls, heap, loc>>

\* Lines 158-267 of the call, on its own QrState.
EncodeRest(t, text, ec_level, scoreSet, tempSets) ==
  /\ pc[t] = "encode" /\ Scheduled(t)
  /\ \E nd \in Choices(qr_states[t], ec_level, scoreSet, tempSets) :
       \E q \in {EncodeSized(SelectVersion([qr_free_state(qr_states[t])
                                               EXCEPT !.ec_level = ec_level],
                                            FirstFit(Len(text), ec_level, nd, 0)),
                              tables, text, ec_level, nd).qr} :
         /\ qr_states' = [qr_states EXCEPT ![t] = q]
         /\ heap' = HeapAfterEncode(heap, qr_states[t], q)
  /\ pc' = [pc EXCEPT ![t] = "done"]
  /\ race' = Stepped(t, FALSE)
  /\ UNCHANGED <<qr, tables, last, rs_vars, prot_vars, text_buffer, accepted, sys_last,
                 calls, loc>>

(***************************************************************************)
(* Spec: any sequence of calls on the QrState.                             *)
(***************************************************************************)
Configure == write_mask_fields(SeqMasks)

Encode == qr_encode_text_call(TextsOf({97}, SeqLens), SeqEcs, SeqScores, SeqTemps)

Next == qr_init \/ qr_free \/ Configure \/ Encode

Spec == Init /\ [][Next]_vars

(***************************************************************************)
(* SpecTables: any sequence of calls on the QrState, and rs_init at some   *)
(* point, so that both sets of Galois-field tables get initialised.        *)
(***************************************************************************)
InitRsOnce == ~rs_ready /\ rs_init

NextTables == qr_init \/ qr_free \/ Configure \/ Encode \/ InitRsOnce

SpecTables == Init /\ [][NextTables]_vars

(***************************************************************************)
(* SpecOnce: one call, for every text length, on a QrState as qr_init and  *)
(* the caller's field writes leave it.                                     *)
(***************************************************************************)
NotEncoded == last.op # "qr_encode_text"

ConfigureOnce == NotEncoded /\ write_mask_fields(MaskInputs)

EncodeOnce ==
  NotEncoded /\ qr_encode_text_call(TextsOf({97}, AllLens \cup BoundaryLens),
                                    EcInputs, SeqScores, SeqTemps)

NextOnce == ConfigureOnce \/ EncodeOnce

SpecOnce == Init /\ [][NextOnce]_vars

(***************************************************************************)
(* SpecMask: one call in automatic-mask mode, for every score vector.      *)
(***************************************************************************)
MaskLens == {0, VERSION_INFO[1].capacity[4] + 1}

EncodeScored ==
  NotEncoded /\ qr_encode_text_call(TextsOf({97}, MaskLens), SeqEcs, ScoreVecs, MaskTemps)

NextMask == ConfigureOnce \/ EncodeScored

SpecMask == Init /\ [][NextMask]_vars

(***************************************************************************)
(* SpecRS: rs_init, any number of times or not at all, then one call of    *)
(* rs_compute_ecc.                                                         *)
(***************************************************************************)
NotComputed == rs_call.op = "none"

InitRS == NotComputed /\ rs_init

ComputeOnce == NotComputed /\ rs_compute_ecc_call(RsBlocks, EccLens)

\* Blocks handed to rs_encode_block: those of at most two bytes.
EncodeBlocks == { block \in RsBlocks : Len(block) <= 2 }

EncodeBlockOnce ==
  NotComputed /\ rs_encode_block_call(EncodeBlocks, EcInputs, BlockVersions)

NextRS == InitRS \/ ComputeOnce \/ EncodeBlockOnce

(***************************************************************************)
(* SpecFormat: mask settings and encodes on the QrState, then one call of   *)
(* rs_generate_format_bits for any level and mask a caller may pass.       *)
(***************************************************************************)
rs_generate_format_bits_call ==
  /\ ~format_call.called
  /\ \E ec_level \in EcInputs, mask_pattern \in MaskInputs :
       format_call' = [called |-> TRUE, ec_level |-> ec_level,
                       mask_pattern |-> mask_pattern,
                       bits |-> rs_generate_format_bits(ec_level, mask_pattern)]
  /\ UNCHANGED <<qr, tables, last, rs_tables, rs_ready, rs_call, rs_syn,
                 sys_vars, race_vars, prot_vars>>

FormatConfigure == ~format_call.called /\ Configure

FormatEncode == ~format_call.called /\ Encode

NextFormat == FormatConfigure \/ FormatEncode \/ rs_generate_format_bits_call

SpecFormat == Init /\ [][NextFormat]_vars

(***************************************************************************)
(* SpecSyn: rs_init or not, one call of rs_compute_ecc, then one call of   *)
(* rs_compute_syndromes on the data followed by the codewords produced,    *)
(* as they are or with the first byte changed.                             *)
(***************************************************************************)
\* The block a caller assembles from the last rs_compute_ecc call.
Codeword ==
  SubSeq(rs_call.data, 1, rs_call.data_length)
    \o [j \in 1..rs_call.ecc_length |-> rs_call.ecc[j - 1]]

rs_compute_syndromes_call ==
  /\ rs_call.op = "rs_compute_ecc" /\ rs_call.ret
  /\ ~rs_syn.called
  /\ \E corrupted \in BOOLEAN :
       \E data \in {IF corrupted
                     THEN [Codeword EXCEPT ![1] = IF @ = 0 THEN 1 ELSE 0]
                     ELSE Codeword} :
         \E r \in {rs_compute_syndromes(rs_tables, data, Len(data),
                                         rs_call.ecc_length)} :
           rs_syn' = [called |-> TRUE, data |-> data,
                      num_roots |-> rs_call.ecc_length, corrupted |-> corrupted,
                      syndromes |-> r.syndromes, non_zero |-> r.non_zero]
  /\ UNCHANGED <<qr, tables, last, rs_tables, rs_ready, rs_call, format_call,
                 sys_vars, race_vars, prot_vars>>

\* The blocks encoded: those of at most two bytes and one of three.
SynBlocks == { block \in RsBlocks : Len(block) \in 1..2 } \cup {<<0, 1, 255>>}

ComputeSyn == NotComputed /\ rs_compute_ecc_call(SynBlocks, EccLens)

NextSyn == InitRS \/ ComputeSyn \/ rs_compute_syndromes_call

SpecSyn == Init /\ [][NextSyn]_vars

SpecRS == Init /\ [][NextRS]_vars

(***************************************************************************)
(* SpecSys: up to MaxCalls calls of qr_set_text, qr_generate and           *)
(* qr_encode_text on two QrStates.                                         *)
(***************************************************************************)
MaxCalls == 3

\* Texts handed to qr_set_text: empty, one and two bytes, and 256 bytes.
SetTexts == TextsOf({97}, {0, 1, 2, 256})

SetText == calls < MaxCalls /\ \E s \in States, text \in SetTexts : qr_set_text(s, text)

Generate == calls < MaxCalls /\ \E s \in States : qr_generate(s, SeqScores, SeqTemps)

EncodeDirect ==
  /\ calls < MaxCalls
  /\ \E s \in States, ec_level \in {QR_ECLEVEL_L, QR_ECLEVEL_M} :
       EncodeState("qr_encode_text", s, <<>>, ec_level, SeqScores, SeqTemps)

NextSys == SetText \/ Generate \/ EncodeDirect

SpecSys == Init /\ [][NextSys]_vars

(***************************************************************************)
(* SpecPair: two QrStates, qr and qr_states[1], given the same forced mask *)
(* and then encoded once each, with payloads that may differ.              *)
(***************************************************************************)
\* Payloads of one, two and 18 bytes (version 1 and version 2 at level L),
\* uniform or with a differing last byte.
PairLens == {1, 2, VERSION_INFO[1].capacity[1] + 1}

PairTexts ==
  TextsOf(Chars, PairLens)
    \cup { [Repeat(97, n) EXCEPT ![n] = 122] : n \in PairLens \ {1} }

PairEcs == {QR_ECLEVEL_L, QR_ECLEVEL_H}

\* The caller's writes mask_pattern = m, auto_mask = false on both QrStates.
PairMask ==
  /\ NotEncoded /\ sys_last.op = "none"
  /\ \E m \in 0..7 :
       /\ qr' = [qr EXCEPT !.mask_pattern = m, !.auto_mask = FALSE]
       /\ qr_states' = [qr_states EXCEPT ![1].mask_pattern = m,
                                         ![1].auto_mask = FALSE]
  /\ last' = Op("write_mask_fields")
  /\ UNCHANGED <<tables, rs_vars, prot_vars, race_vars, text_buffer, accepted, sys_last,
                 calls, heap>>

PairEncodeFirst ==
  NotEncoded /\ qr_encode_text_call(PairTexts, PairEcs, SeqScores, SeqTemps)

PairEncodeSecond ==
  /\ sys_last.op = "none"
  /\ \E text \in PairTexts, ec_level \in PairEcs :
       EncodeState("qr_encode_text", 1, text, ec_level, SeqScores, SeqTemps)

NextPair == PairMask \/ PairEncodeFirst \/ PairEncodeSecond

SpecPair == Init /\ [][NextPair]_vars

(***************************************************************************)
(* SpecWallet: up to MaxCalls calls of qr_init, qr_free, qr_set_text,      *)
(* qr_generate and qr_encode_text on two QrStates and of                   *)
(* wallet_generate_qr on the wallet's.                                     *)
(***************************************************************************)
WalletIndices == (0 - 1)..Len(WalletEntries)

InitState == calls < MaxCalls /\ \E s \in States : qr_init_of(s)

FreeState == calls < MaxCalls /\ \E s \in States : qr_free_of(s)

WalletGenerateQr ==
  /\ calls < MaxCalls
  /\ \E index \in WalletIndices : wallet_generate_qr(index, SeqScores, SeqTemps)

NextWallet ==
  \/ InitState \/ FreeState \/ SetText \/ Generate \/ EncodeDirect
  \/ WalletGenerateQr

SpecWallet == Init /\ [][NextWallet]_vars

(***************************************************************************)
(* SpecProt: qr_protection_set_level and qr_protection_set_params in any   *)
(* order, one qr_protection_generate_variations, then                      *)
(* qr_protection_render.                                                   *)
(***************************************************************************)
\* Parameters handed to qr_protection_set_params: in range, out of range
\* upwards, and with refresh rate and variation count 0.
CustomParams ==
  { [refresh_rate |-> 30, mask_variations |-> 2, randomize_function |-> FALSE,
     custom_ecc_level |-> 4, invert_modules |-> TRUE, invert_percentage |-> 25],
    [refresh_rate |-> 61, mask_variations |-> 9, randomize_function |-> TRUE,
     custom_ecc_level |-> 3, invert_modules |-> FALSE, invert_percentage |-> 0],
    [refresh_rate |-> 0, mask_variations |-> 0, randomize_function |-> FALSE,
     custom_ecc_level |-> 0, invert_modules |-> FALSE, invert_percentage |-> 0] }

\* Payloads: one byte, one that needs version 2 at level Q, and one longer
\* than any supported version holds.
ProtTexts == TextsOf({97}, {1, VERSION_INFO[1].capacity[3] + 1, MaxTextLen})

\* Iterations whose allocations fail: none, or the second.
ProtFailing == {{}, {1}}

\* States of rand() at the call.
RandSeeds == {1, 2}

NotGenerated == prot_last.op \notin {"qr_protection_generate_variations",
                                     "qr_protection_render"}

ProtSetLevel ==
  NotGenerated /\ \E level \in 0..QR_PROT_LEVEL_COUNT : qr_protection_set_level(level)

ProtSetParams ==
  NotGenerated /\ \E params \in CustomParams : qr_protection_set_params(params)

ProtGenerate ==
  /\ NotGenerated
  /\ \E data \in ProtTexts, is_null \in BOOLEAN, failing \in ProtFailing,
        seed \in RandSeeds :
       qr_protection_generate_variations(data, is_null, failing, seed)

ProtRender ==
  prot_last.op = "qr_protection_generate_variations" /\ qr_protection_render

NextProt == ProtSetLevel \/ ProtSetParams \/ ProtGenerate \/ ProtRender

SpecProt == Init /\ [][NextProt]_vars

(***************************************************************************)
(* SpecFrames: the main loop runs; the protection level or parameters are  *)
(* set and the variations generated at some frame, and from then on only   *)
(* frames pass.  SpecFramesFair adds that the loop keeps iterating.        *)
(***************************************************************************)
NoVariations == prot.variation_count = 0

FramesSetLevel ==
  NoVariations /\ \E level \in 0..QR_PROT_LEVEL_COUNT : qr_protection_set_level(level)

FramesSetParams ==
  NoVariations /\ \E params \in CustomParams : qr_protection_set_params(params)

\* The frames at which the variations are generated: before the first
\* frame, early, after display_frames of some levels, and shortly before
\* frame_counter wraps.
GenerateFrames == {0, 1, 7, FrameModulus - 3}

FramesGenerate ==
  /\ NoVariations /\ frame_counter \in GenerateFrames
  /\ qr_protection_generate_variations(<<97>>, FALSE, {}, 1)

NextFrames ==
  \/ FramesSetLevel \/ FramesSetParams \/ FramesGenerate
  \/ main_loop_frame \/ menu_update \/ main_loop_update

SpecFrames == Init /\ [][NextFrames]_vars

\* while (1): the loop never stops taking its next step.
main_loop == main_loop_frame \/ main_loop_update

SpecFramesFair == SpecFrames /\ WF_vars(main_loop)

(***************************************************************************)
(* SpecInvert: one symbol of each size is encoded and then passed to       *)
(* qr_apply_module_inversion.  prot_last.data keeps the modules the call   *)
(* was given.                                                              *)
(***************************************************************************)
\* Payload lengths that fill versions 1..5 at level L, and one that fits
\* no version.
InvertLens == { VERSION_INFO[v].capacity[1] : v \in 1..NUM_VERSIONS }
                \cup {MaxTextLen}

\* u8 percentage: none, the least, below, at and above the cap of 20.
InvertPercentages == {0, 1, 10, 20, 21, 255}

\* States of rand() at the call.
InvertSeeds == 1..8

InvertEncode ==
  NotEncoded /\ qr_encode_text_call(TextsOf({97}, InvertLens), SeqEcs,
                                    SeqScores, SeqTemps)

\* qr_apply_module_inversion(&qr, percentage) with rand() in state seed.
InvertApply ==
  /\ last.op = "qr_encode_text" /\ prot_last.op = "none"
  /\ \E percentage \in InvertPercentages, seed \in InvertSeeds :
       qr' = qr_apply_module_inversion(qr, percentage, seed).qr
  /\ prot_last' = [NoProtCall EXCEPT !.op = "qr_apply_module_inversion",
                                     !.ret = TRUE, !.data = qr.data]
  /\ UNCHANGED <<tables, last, rs_vars, sys_vars, race_vars, prot,
                 frame_counter, frames>>

NextInvert == InvertEncode \/ InvertApply

SpecInvert == Init /\ [][NextInvert]_vars

(***************************************************************************)
(* SpecRace: two interleaved calls of qr_encode_text on distinct QrStates, *)
(* with at most MaxPreemptions preemptions.                                *)
(***************************************************************************)
RaceTest == \E t \in States : TestInitialized(t)
RaceInitGf == \E t \in States : InitGaloisField(t)
RaceGenLevel == \E t \in States : GenLevel(t)
RaceGenStep == \E t \in States : GenStep(t)
RaceSet == \E t \in States : SetInitialized(t)
RaceEncode ==
  \E t \in States : EncodeRest(t, <<97>>, QR_ECLEVEL_M, SeqScores, SeqTemps)

NextRace ==
  RaceTest \/ RaceInitGf \/ RaceGenLevel \/ RaceGenStep \/ RaceSet \/ RaceEncode

SpecRace == Init /\ [][NextRace]_vars
(***************************************************************************)
(* Properties                                                              *)
(***************************************************************************)
Encoded == last.op = "qr_encode_text"
Succeeded == Encoded /\ last.ret

\* The QrState the last call started from, as far as the call reads it: its
\* first steps free the buffer and overwrite ec_level.
CallState ==
  [qr_init_state EXCEPT !.mask_pattern = last.mask_pattern,
                        !.auto_mask = last.auto_mask]

\* A valid EC level and a mask setting that is automatic or forced to 0..7.
ValidCall ==
  /\ ValidEc(last.ec_level)
  /\ last.auto_mask \/ ValidMask(last.mask_pattern)

\* C1: two calls of qr_encode_text with the same text and EC level on equally
\* initialised QrStates give the same size, mask_pattern and matrix.  Stated
\* on the last call: every other successful run of the same call, with every
\* allocation succeeding as in the last one, ends as the last call did.
C1_SameArgumentsSameSymbol ==
  (Succeeded /\ ValidCall /\ (last.auto_mask => last.evals = 8)) =>
    \A nd \in Choices(CallState, last.ec_level, SeqScores, SeqTemps) :
      (nd.alloc_data /\ nd.alloc_encoded
         /\ (last.auto_mask => nd.alloc_temp = AllTemps)) =>
        \A r \in {qr_encode_text(CallState, tables, last.text, last.ec_level, nd)} :
          /\ r.qr.size = qr.size
          /\ r.qr.mask_pattern = qr.mask_pattern
          /\ r.qr.data = qr.data

\* The matrix is some created matrix of its size with mask_pattern applied.
MaskedWith(matrix, size, mask_pattern) ==
  \E fb \in FormatWords : matrix = MaskedTable[size][fb][mask_pattern]

C3_ForcedMaskKept ==
  (Succeeded /\ ~last.auto_mask /\ ValidMask(last.mask_pattern)) =>
    /\ qr.mask_pattern = last.mask_pattern
    /\ MaskedWith(qr.data, qr.size, last.mask_pattern)
    /\ last.evals = 0

\* C3 witness: a successful version-2 encode with the mask forced to 3.
C3_Witness ==
  /\ Succeeded /\ ~last.auto_mask /\ last.mask_pattern = 3
  /\ qr.size = 25 /\ qr.mask_pattern = 3

\* The smallest version 1..NUM_VERSIONS whose capacity at ec_level holds n bytes.
SmallestVersion(n, ec_level) ==
  CHOOSE v \in 1..NUM_VERSIONS :
    /\ VERSION_INFO[v].capacity[ec_level + 1] >= n
    /\ \A w \in 1..(v - 1) : VERSION_INFO[w].capacity[ec_level + 1] < n

\* C4: a successful encode of n bytes at level e gives size 17 + 4*v for the
\* smallest supported version v with capacity >= n; 7 bytes at level H give
\* size 21 and 8 bytes give size 25.
C4_SmallestVersionSize ==
  (Succeeded /\ ValidEc(last.ec_level)) =>
    /\ qr.size = 17 + 4 * SmallestVersion(Len(last.text), last.ec_level)
    /\ (last.ec_level = QR_ECLEVEL_H /\ Len(last.text) = 7) => qr.size = 21
    /\ (last.ec_level = QR_ECLEVEL_H /\ Len(last.text) = 8) => qr.size = 25

\* C4 witness: the 8-byte text at level H encoded as version 2.
C4_Witness ==
  /\ Succeeded /\ last.ec_level = QR_ECLEVEL_H /\ Len(last.text) = 8
  /\ qr.size = 25

\* The 15-bit word read back from one copy of the format information.
RECURSIVE ReadFormatWord(_, _, _, _)
ReadFormatWord(matrix, size, second, i) ==
  IF i >= 15 THEN 0
  ELSE matrix[IF second THEN FormatSecondCopy(size, i)
              ELSE FormatFirstCopy(size, i)] * (2 ^ i)
       + ReadFormatWord(matrix, size, second, i + 1)

\* C5: in every symbol of a successful encode both copies of the format
\* information read back as FORMAT_INFO[ec_level][mask_pattern] for the mask
\* applied and stored.
C5_FormatInfoReadsBack ==
  (Succeeded /\ ValidCall) =>
    /\ ReadFormatWord(qr.data, qr.size, FALSE, 0)
         = FORMAT_INFO[last.ec_level + 1][qr.mask_pattern + 1]
    /\ ReadFormatWord(qr.data, qr.size, TRUE, 0)
         = FORMAT_INFO[last.ec_level + 1][qr.mask_pattern + 1]

\* The module at column x, row y.
Module(x, y) == qr.data[y * qr.size + x]

\* The 8x8 region whose finder pattern has its corner at (fx, fy) and whose
\* separator is column sx and row sy: dark outer ring, light ring, dark 3x3
\* centre, light separator.
FinderRegion(fx, fy, sx, sy) ==
  /\ \A dx \in 0..6, dy \in 0..6 :
       LET ax == IF dx >= 3 THEN dx - 3 ELSE 3 - dx
           ay == IF dy >= 3 THEN dy - 3 ELSE 3 - dy
           ring == IF ax >= ay THEN ax ELSE ay
       IN  Module(fx + dx, fy + dy) = IF ring = 2 THEN 0 ELSE 1
  /\ \A d \in 0..7 :
       /\ Module(sx, (IF fy = 0 THEN 0 ELSE sy) + d) = 0
       /\ Module((IF fx = 0 THEN 0 ELSE sx) + d, sy) = 0

\* C6: after a successful encode the top-left, top-right and bottom-left 8x8
\* regions hold the finder pattern with its light separator row and column.
C6_FinderPatternsIntact ==
  Succeeded =>
    /\ FinderRegion(0, 0, 7, 7)
    /\ FinderRegion(qr.size - 7, 0, qr.size - 8, 7)
    /\ FinderRegion(0, qr.size - 7, 7, qr.size - 8)

\* C6 witness: a successful version-5 encode in automatic mode that applied
\* mask 7.
C6_Witness ==
  /\ Succeeded /\ last.auto_mask /\ qr.size = 37 /\ qr.mask_pattern = 7

\* C7: a forced mask outside 0..7 or an EC level outside L..H makes the call
\* return false without indexing a table with the value and without building
\* anything; after a successful call mask_pattern is in 0..7.
C7_OutOfRangeRejectedAtOnce ==
  Encoded =>
    /\ ((~last.auto_mask /\ ~ValidMask(last.mask_pattern)) \/ ~ValidEc(last.ec_level))
         => (~last.ret /\ ~last.indexed_out_of_range /\ ~last.built)
    /\ last.ret => qr.mask_pattern \in 0..7

\* C8: data = NULL implies size = 0 in every state the calls reach.
C8_NoBufferNoSize ==
  qr.data = NULL => qr.size = 0

\* The choices of the last call, as far as they are recorded.
LastChoices ==
  [junk_capacity |-> NoJunkCapacity, junk_format |-> 0, alloc_data |-> TRUE,
   alloc_encoded |-> TRUE, alloc_temp |-> DOMAIN last.scores,
   scores |-> [j \in 0..7 |-> IF j \in DOMAIN last.scores
                               THEN last.scores[j] ELSE 0]]

\* A QrState fresh from qr_init, given the mask setting of the last call: the
\* forced mask if there was one.
FreshState ==
  IF last.auto_mask THEN qr_init_state
  ELSE [qr_init_state EXCEPT !.mask_pattern = last.mask_pattern,
                             !.auto_mask = FALSE]

\* C9: a successful encode leaves the matrix and mask_pattern that the same
\* call leaves on a freshly initialised QrState, given the same text, EC
\* level, mask setting and scores.
C9_IndependentOfEarlierCalls ==
  (Succeeded /\ ValidCall) =>
    \A r \in {qr_encode_text(FreshState, ZeroTables, last.text, last.ec_level,
                             LastChoices)} :
      /\ r.ret
      /\ r.qr.data = qr.data
      /\ r.qr.mask_pattern = qr.mask_pattern

\* Arithmetic of GF(256) = GF(2)[x] / (x^8 + x^4 + x^3 + x^2 + 1) on bytes,
\* without tables: a times x, a times b, and the power i of alpha = x.
RefTimesAlpha(a) == IF a >= 128 THEN BitXor(2 * a - 256, 29) ELSE 2 * a

RECURSIVE RefMul(_, _)
RefMul(a, b) ==
  IF b = 0 THEN 0
  ELSE BitXor(IF b % 2 = 1 THEN a ELSE 0, RefMul(RefTimesAlpha(a), b \div 2))

RECURSIVE RefAlphaPower(_)
RefAlphaPower(i) == IF i = 0 THEN 1 ELSE RefTimesAlpha(RefAlphaPower(i - 1))

\* g(x) * (x + r) for a polynomial g given as its coefficients, highest
\* degree first; acc holds the leading coefficients of the product so far.
RECURSIVE RefTimesLinear(_, _, _)
RefTimesLinear(g, r, acc) ==
  IF Len(acc) > Len(g) THEN acc
  ELSE RefTimesLinear(g, r,
         Append(acc,
                BitXor(IF Len(acc) + 1 <= Len(g) THEN g[Len(acc) + 1] ELSE 0,
                       IF Len(acc) >= 1 THEN RefMul(g[Len(acc)], r) ELSE 0)))

\* The generator polynomials (x + alpha^0) ... (x + alpha^(n-1)) for
\* n = 0 .. RS_MAX_POLY - 1; entry n + 1 has degree n.
RECURSIVE RefGeneratorsFrom(_)
RefGeneratorsFrom(acc) ==
  IF Len(acc) >= RS_MAX_POLY THEN acc
  ELSE RefGeneratorsFrom(
         Append(acc, RefTimesLinear(acc[Len(acc)], RefAlphaPower(Len(acc) - 1), <<>>)))

RefGenerators == RefGeneratorsFrom(<< <<1>> >>)

\* One step of schoolbook long division by the monic g: d plus d[i] * g
\* aligned at position i, which cancels d[i]; acc holds the coefficients of
\* the result so far.
RECURSIVE RefCancel(_, _, _, _)
RefCancel(d, g, i, acc) ==
  IF Len(acc) >= Len(d) THEN acc
  ELSE RefCancel(d, g, i,
         Append(acc,
                IF Len(acc) + 1 >= i /\ Len(acc) + 1 < i + Len(g)
                THEN BitXor(d[Len(acc) + 1], RefMul(d[i], g[Len(acc) + 2 - i]))
                ELSE d[Len(acc) + 1]))

\* The division steps for the dividend positions i .. steps.
RECURSIVE RefDivide(_, _, _, _)
RefDivide(d, g, steps, i) ==
  IF i > steps \/ Len(d) = 0 THEN d
  ELSE RefDivide(RefCancel(d, g, i, <<>>), g, steps, i + 1)

\* The remainder of data(x) * x^n by the degree-n generator: n coefficients,
\* highest degree first.
RefRemainder(data, n) ==
  SubSeq(RefDivide(data \o [k \in 1..n |-> 0], RefGenerators[n + 1], Len(data), 1),
         Len(data) + 1, Len(data) + n)

\* A call made after rs_init with a non-empty block, a buffer, and an ECC
\* length in 1 .. RS_MAX_POLY - 1.
RsSupportedCall ==
  /\ rs_call.op = "rs_compute_ecc" /\ rs_ready
  /\ rs_call.data # NULL /\ rs_call.before # NULL
  /\ rs_call.data_length >= 1
  /\ rs_call.ecc_length \in 1..(RS_MAX_POLY - 1)

\* C10: after rs_init, rs_compute_ecc on a non-empty block and a supported
\* ecc_length returns true and leaves in ecc[0 .. ecc_length-1] the remainder
\* of data(x) * x^ecc_length by the generator polynomial, highest degree
\* first, and writes no byte beyond.
C10_EccIsDivisionRemainder ==
  RsSupportedCall =>
    /\ rs_call.ret
    /\ \A r \in {RefRemainder(rs_call.data, rs_call.ecc_length)} :
         \A j \in 0..(rs_call.ecc_length - 1) : rs_call.ecc[j] = r[j + 1]
    /\ rs_call.ecc[rs_call.ecc_length] = EccBuffer(rs_call.ecc_length)[rs_call.ecc_length]

\* C10 witness: the block 0, 1, 255 (a zero feedback, then non-zero ones) with
\* 17 ECC bytes, after rs_init.
C10_Witness ==
  /\ RsSupportedCall /\ rs_call.ret
  /\ rs_call.data = <<0, 1, 255>> /\ rs_call.ecc_length = 17
  /\ rs_call.ecc[0] # 0

\* The number of data codewords of versions 1..5 at levels L, M, Q, H, as
\* published in ISO/IEC 18004.
DataCodewords ==
  << <<19, 16, 13, 9>>, <<34, 28, 22, 16>>, <<55, 44, 34, 26>>,
     <<80, 64, 48, 36>>, <<108, 86, 62, 46>> >>

\* C11: the codeword stream encode_data leaves for the following stages
\* (data_length bytes at the front of the buffer) is exactly as long as the
\* data-codeword capacity of the selected version and level.
C11_StreamFillsCapacity ==
  (Succeeded /\ ValidEc(last.ec_level)) =>
    qr.data_length = DataCodewords[(qr.size - 17) \div 4][last.ec_level + 1]

\* C12: the empty payload at level L encodes to a 21x21 symbol, through
\* qr_encode_text directly and through qr_set_text followed by qr_generate:
\* neither step of that route refuses it.  Stated for calls whose buffer
\* allocations succeed.
C12_EmptyPayloadEncodes ==
  /\ (sys_last.op = "qr_encode_text" /\ sys_last.text = <<>>
        /\ sys_last.ec_level = QR_ECLEVEL_L /\ sys_last.allocated)
       => (sys_last.ret /\ qr_states[sys_last.state].size = 21)
  /\ (sys_last.op = "qr_set_text" /\ sys_last.text = <<>>
        /\ sys_last.ec_level = QR_ECLEVEL_L)
       => sys_last.ret
  /\ (sys_last.op = "qr_generate" /\ accepted[sys_last.state].set
        /\ accepted[sys_last.state].text = <<>>
        /\ sys_last.ec_level = QR_ECLEVEL_L)
       => (sys_last.allocated => sys_last.ret /\ qr_states[sys_last.state].size = 21)

\* C13: at level L a payload of 2953 bytes, the version-40 capacity, can be
\* encoded (the call succeeds when its allocations do), and a payload of
\* 2954 bytes is refused.
C13_Version40Boundary ==
  (Encoded /\ ValidCall /\ last.ec_level = QR_ECLEVEL_L) =>
    /\ Len(last.text) = 2953 =>
         \E nd \in Choices(CallState, last.ec_level, SeqScores, SeqTemps) :
           qr_encode_text(CallState, tables, last.text, last.ec_level, nd).ret
    /\ Len(last.text) = 2954 => ~last.ret

\* A call of rs_compute_ecc or rs_encode_block with an ECC length below 1
\* or above RS_MAX_POLY - 1, a null buffer, or a data_length below 1.
RsInvalidCall ==
  /\ rs_call.op \in {"rs_compute_ecc", "rs_encode_block"}
  /\ \/ rs_call.ecc_length < 1
     \/ rs_call.ecc_length > RS_MAX_POLY - 1
     \/ rs_call.data = NULL
     \/ rs_call.before = NULL
     \/ rs_call.data_length < 1

\* C14: rs_compute_ecc and rs_encode_block return false and leave the output
\* buffer as it was when the ECC length is below 1 or above the largest
\* supported one, a buffer pointer is null, or data_length is below 1.
C14_InvalidParametersRejected ==
  RsInvalidCall => (~rs_call.ret /\ rs_call.ecc = rs_call.before)

\* C14 witness: rs_encode_block refused for an ECC length of 72 (version 2,
\* level L) with both buffers present, the output buffer still all 0xFF.
C14_Witness ==
  /\ rs_call.op = "rs_encode_block" /\ rs_call.ecc_length = 72
  /\ rs_call.data = <<1, 2>> /\ rs_call.data_length = 2
  /\ rs_call.before # NULL /\ ~rs_call.ret
  /\ \A j \in DOMAIN rs_call.ecc : rs_call.ecc[j] = 255

\* C15: whatever calls of qr_set_text and qr_generate were made on other
\* QrStates in between, a qr_generate on a QrState that goes on to encode
\* passes the text qr_set_text last accepted for that QrState to
\* qr_encode_text, and after a success data_length is that text's length.
C15_GenerateEncodesOwnText ==
  (sys_last.op = "qr_generate" /\ sys_last.encoded
     /\ accepted[sys_last.state].set) =>
    /\ sys_last.text = accepted[sys_last.state].text
    /\ sys_last.ret =>
         qr_states[sys_last.state].data_length = Len(accepted[sys_last.state].text)

\* Both calls have returned.
BothDone == \A t \in States : pc[t] = "done"

\* C16: with two interleaved calls the tables are populated by exactly one
\* run of the initialisation, no table entry is written after a call has
\* read tables_initialized as true, and when both calls have returned the
\* tables are those of a single sequential initialisation.
C16_TablesInitialisedOnce ==
  /\ race.runs <= 1
  /\ ~race.written_after
  /\ BothDone => (race.runs = 1 /\ tables = FilledTables)

\* The flat indices of the function patterns of a symbol of the given size:
\* finder patterns with separators, both timing lines, the dark module, both
\* copies of the format information, and the 5x5 alignment patterns where
\* add_alignment_patterns draws them.
TimingCells(size) ==
  UNION { {6 * size + i, i * size + 6} : i \in 8..(size - 9) }

DarkModuleCell(size) == (size - 8) * size + 8

FormatCells(size) ==
  UNION { {FormatFirstCopy(size, i), FormatSecondCopy(size, i)} : i \in 0..14 }

AlignmentRegions(size) ==
  IF AlignmentCells(size) = {} THEN {}
  ELSE UNION { { (pos + y) * size + (pos + x) : x \in -2..2, y \in -2..2 }
               : pos \in ActivePositions(
                           ALIGNMENT_POSITIONS[((size - 17) \div 4) - 1], 1) }

FunctionCells(size) ==
  FinderCells(size) \cup SeparatorCells(size) \cup TimingCells(size)
    \cup {DarkModuleCell(size)} \cup FormatCells(size)
    \cup AlignmentRegions(size)

\* The matrix create_matrix built in the last call, before any mask.
BeforeMask ==
  Unmasked(qr.size, FORMAT_INFO[last.ec_level + 1][last.mask_pattern + 1])

\* C17: apply_mask_pattern leaves every function-pattern module as
\* create_matrix drew it: finder patterns and separators, both timing lines,
\* the alignment patterns of version 2 and above, both copies of the format
\* information and the dark module.
C17_MaskKeepsFunctionPatterns ==
  (Succeeded /\ ValidEc(last.ec_level) /\ ValidMask(last.mask_pattern)) =>
    \A k \in FunctionCells(qr.size) : qr.data[k] = BeforeMask[k]

\* The mask conditions of ISO/IEC 18004 at row i, column j.
StandardMask(index, i, j) ==
  CASE index = 0 -> (i + j) % 2 = 0
    [] index = 1 -> i % 2 = 0
    [] index = 2 -> j % 3 = 0
    [] index = 3 -> (i + j) % 3 = 0
    [] index = 4 -> ((i \div 2) + (j \div 3)) % 2 = 0
    [] index = 5 -> ((i * j) % 2) + ((i * j) % 3) = 0
    [] index = 6 -> (((i * j) % 2) + ((i * j) % 3)) % 2 = 0
    [] index = 7 -> (((i + j) % 2) + ((i * j) % 3)) % 2 = 0

\* The last call succeeded with a forced mask 0..7 and a valid level.
ForcedMaskEncoded ==
  /\ Succeeded /\ ~last.auto_mask
  /\ ValidEc(last.ec_level) /\ ValidMask(last.mask_pattern)

\* C18: for each mask index 0..7, a module (row, col) that apply_mask_pattern
\* does not skip is inverted exactly when the standard condition of that
\* index holds at (row, col).
C18_MaskFollowsStandardFormula ==
  ForcedMaskEncoded =>
    \A row \in 0..(qr.size - 1), col \in 0..(qr.size - 1) :
      ~MaskSkips(col, row, qr.size) =>
        ((qr.data[row * qr.size + col] # BeforeMask[row * qr.size + col])
           <=> StandardMask(qr.mask_pattern, row, col))

\* C18 witness: mask 4 has been applied; it left the module at row 9,
\* column 10 and inverted the one at row 10, column 9.
C18_Witness ==
  /\ ForcedMaskEncoded /\ qr.mask_pattern = 4
  /\ qr.data[9 * qr.size + 10] = BeforeMask[9 * qr.size + 10]
  /\ qr.data[10 * qr.size + 9] # BeforeMask[10 * qr.size + 9]

\* qr and qr_states[1] were both encoded successfully, with the same forced
\* mask and the same level, from two payloads of the same length that differ
\* in at least one byte.
PairDiffers ==
  /\ Succeeded /\ sys_last.op = "qr_encode_text" /\ sys_last.ret
  /\ ~last.auto_mask /\ ~qr_states[1].auto_mask
  /\ qr.mask_pattern = qr_states[1].mask_pattern
  /\ last.ec_level = sys_last.ec_level
  /\ Len(last.text) = Len(sys_last.text)
  /\ last.text # sys_last.text

\* C19: two payloads of the same length that differ in a byte, encoded with
\* the same EC level and the same forced mask, give matrices that differ in
\* at least one module.
C19_PayloadShowsInMatrix ==
  PairDiffers => qr.data # qr_states[1].data

\* Entry n is the array of RS_MAX_POLY coefficients, index = power of x,
\* that holds the product of (x - alpha^i), i = 0..n-1, taken from generators.
RefArrays(generators) ==
  [n \in 1..(RS_MAX_POLY - 1) |->
     [k \in 0..(RS_MAX_POLY - 1) |->
        IF k <= n THEN generators[n + 1][n - k + 1] ELSE 0]]

RefGeneratorArrays == RefArrays(RefGenerators)

\* alpha^0 .. alpha^254, computed without tables.
RECURSIVE RefAlphaPowersFrom(_)
RefAlphaPowersFrom(acc) ==
  IF Len(acc) >= 255 THEN acc
  ELSE RefAlphaPowersFrom(Append(acc, RefTimesAlpha(acc[Len(acc)])))

RefAlphaPowers == RefAlphaPowersFrom(<<1>>)

\* Entry v is the exponent i below 255 with alpha^i = v, for v = 1..255.
RECURSIVE RefLogFill(_, _, _)
RefLogFill(log, powers, i) ==
  IF i >= 255 THEN log
  ELSE RefLogFill([log EXCEPT ![powers[i + 1]] = i], powers, i + 1)

RefLogs == RefLogFill([v \in 1..255 |-> 0], RefAlphaPowers, 0)

\* a times b through the exponents: alpha^(log a + log b).
RefTimes(a, b) ==
  IF a = 0 \/ b = 0 THEN 0
  ELSE RefAlphaPowers[((RefLogs[a] + RefLogs[b]) % 255) + 1]

\* The value at x of the polynomial whose coefficient of x^j is poly[j],
\* j = 0..k, by Horner's rule from x^k down.
RECURSIVE RefEval(_, _, _, _)
RefEval(poly, k, x, acc) ==
  IF acc \notin 0..255 \/ k < 0 \/ k \notin DOMAIN poly THEN acc
  ELSE RefEval(poly, k - 1, x, BitXor(RefTimes(acc, x), poly[k]))

\* C20: after rs_init, for every n in 1..RS_MAX_POLY-1 the stored generator
\* polynomial n is monic of degree n (rs_generator_poly_deg[n] = n, leading
\* coefficient 1, nothing above it), its coefficients are those of the
\* product of (x - alpha^i), i = 0..n-1, and among the powers of alpha its
\* roots are exactly alpha^0 .. alpha^(n-1).
C20_GeneratorPolynomials ==
  rs_ready =>
    \A n \in 1..(RS_MAX_POLY - 1) :
      /\ rs_tables.rs_generator_poly_deg[n] = n
      /\ rs_tables.rs_generator_poly[n][n] = 1
      /\ rs_tables.rs_generator_poly[n] = RefGeneratorArrays[n]
      /\ rs_call.op = "none" =>
           \A i \in 0..254 :
             (RefEval(rs_tables.rs_generator_poly[n], n, RefAlphaPowers[i + 1], 0) = 0)
               <=> (i < n)

\* C20 witness: rs_init has run and no coder call yet; the polynomial of
\* degree 2 is x^2 + 3x + 2 and the one of the highest degree is monic.
C20_Witness ==
  /\ rs_ready /\ rs_call.op = "none"
  /\ rs_tables.rs_generator_poly[2] =
       [k \in 0..(RS_MAX_POLY - 1) |->
          IF k = 0 THEN 2 ELSE IF k = 1 THEN 3 ELSE IF k = 2 THEN 1 ELSE 0]
  /\ rs_tables.rs_generator_poly[RS_MAX_POLY - 1][RS_MAX_POLY - 1] = 1

\* A pair of exponent and logarithm tables of GF(256) with the reduction
\* polynomial 0x11D: exp[0] = 1, each entry the former one doubled and
\* reduced, exp[0..254] the 255 non-zero bytes, and log the inverse of exp.
GfTablesSound(exp, log) ==
  /\ exp[0] = 1
  /\ \A i \in 0..254 : exp[i + 1] = RefTimesAlpha(exp[i])
  /\ { exp[i] : i \in 0..254 } = 1..255
  /\ \A i \in 0..254 : log[exp[i]] = i
  /\ \A a \in 1..255 : exp[log[a]] = a

\* C21: once initialised, the tables of qr_encoder.c and those of
\* reed_solomon.c are each a sound exponent/logarithm pair, and the two
\* sets are equal entry by entry.
C21_GaloisTablesAgree ==
  /\ tables.initialized => GfTablesSound(tables.gf_exp, tables.gf_log)
  /\ rs_ready => GfTablesSound(rs_tables.rs_exp_table, rs_tables.rs_log_table)
  /\ (tables.initialized /\ rs_ready) =>
       \A i \in 0..255 :
         /\ tables.gf_exp[i] = rs_tables.rs_exp_table[i]
         /\ tables.gf_log[i] = rs_tables.rs_log_table[i]

\* C21 witness: both table sets are initialised; alpha^8 = 0x1D in one and
\* its logarithm is 8 in the other.
C21_Witness ==
  /\ tables.initialized /\ rs_ready
  /\ tables.gf_exp[8] = 29
  /\ rs_tables.rs_log_table[29] = 8

\* rs_compute_syndromes was called, after rs_init, on the data of the last
\* rs_compute_ecc call followed by the codewords it produced.
SyndromesOfEncoded == rs_syn.called /\ rs_ready /\ ~rs_syn.corrupted

\* C22: after rs_init, for every non-empty block and every ecc_length in
\* 1..RS_MAX_POLY-1, rs_compute_syndromes on the data followed by the
\* codewords of rs_compute_ecc, with num_roots = ecc_length, returns 0 and
\* writes only zero syndromes.
C22_EncodedBlockHasZeroSyndromes ==
  SyndromesOfEncoded =>
    /\ rs_syn.non_zero = 0
    /\ Len(rs_syn.syndromes) = rs_call.ecc_length
    /\ \A i \in 1..Len(rs_syn.syndromes) : rs_syn.syndromes[i] = 0

\* C22 witness: the syndromes of a three-byte block with 17 codewords that
\* are not all zero.
C22_Witness ==
  /\ SyndromesOfEncoded
  /\ rs_call.data = <<0, 1, 255>> /\ rs_call.ecc_length = 17
  /\ \E j \in 0..16 : rs_call.ecc[j] # 0
  /\ rs_syn.num_roots = 17 /\ Len(rs_syn.data) = 20

\* The remainder of the 15-bit word w divided by the generator 0x537 as
\* polynomials over GF(2): the leading bit, from bit k down to bit 10, is
\* cancelled with the generator aligned under it.
RECURSIVE RefBchRemainder(_, _)
RefBchRemainder(w, k) ==
  IF k < 10 \/ w < 0 THEN w
  ELSE RefBchRemainder(IF (w \div (2 ^ k)) % 2 = 1
                       THEN BitXor(w, 1335 * (2 ^ (k - 10))) ELSE w,
                       k - 1)

\* rs_generate_format_bits was called with a level 0..3 and a mask 0..7.
FormatBitsOfValidPair ==
  /\ format_call.called
  /\ format_call.ec_level \in 0..3 /\ format_call.mask_pattern \in 0..7

\* C23: for every level e in 0..3 and mask m in 0..7, the word returned by
\* rs_generate_format_bits(e, m), XORed with 0x5412, is below 2^15, has
\* e * 8 + m in its top five bits and is divisible by the generator 0x537.
C23_FormatBitsAreBchCodewords ==
  FormatBitsOfValidPair =>
    \A w \in {BitXor(format_call.bits, 21522)} :
      /\ w \in 0..32767
      /\ w \div 1024 = format_call.ec_level * 8 + format_call.mask_pattern
      /\ RefBchRemainder(w, 14) = 0

\* C23 witness: the call for level 1 and mask 5; the word returned is not
\* the fixed mask 0x5412 itself.
C23_Witness ==
  /\ FormatBitsOfValidPair
  /\ format_call.ec_level = 1 /\ format_call.mask_pattern = 5
  /\ format_call.bits # 21522

\* C24: for every level e in L, M, Q, H and mask m in 0..7, the word
\* FORMAT_INFO[e][m] the encoder writes equals rs_generate_format_bits(e, m).
C24_FormatTableMatchesGenerator ==
  FormatBitsOfValidPair =>
    FORMAT_INFO[format_call.ec_level + 1][format_call.mask_pattern + 1]
      = format_call.bits

\* C25: in every symbol of a successful encode, for each i from 8 to
\* size - 9 the modules (row 6, column i) and (row i, column 6) are dark when
\* i is even and light when i is odd.
C25_TimingLinesAlternate ==
  Succeeded =>
    \A i \in 8..(qr.size - 9) :
      /\ Module(i, 6) = (IF i % 2 = 0 THEN 1 ELSE 0)
      /\ Module(6, i) = (IF i % 2 = 0 THEN 1 ELSE 0)

\* C25 witness: a 25x25 symbol with mask 1 applied, light at (row 6,
\* column 9) and dark at (row 16, column 6).
C25_Witness ==
  /\ Succeeded /\ qr.size = 25 /\ qr.mask_pattern = 1
  /\ Module(9, 6) = 0
  /\ Module(6, 16) = 1

\* The last call succeeded in automatic-mask mode at a valid level.
AutoMaskEncoded == Succeeded /\ last.auto_mask /\ ValidEc(last.ec_level)

\* C26: in automatic-mask mode the evaluation loop leaves the constructed
\* matrix as it was, so the final matrix is the constructed one with the
\* selected mask applied once, and applying that mask once more gives the
\* constructed matrix back.
C26_CandidateMasksLeaveNoTrace ==
  AutoMaskEncoded =>
    /\ qr.data = apply_mask_pattern(BeforeMask, qr.size, qr.mask_pattern)
    /\ apply_mask_pattern(qr.data, qr.size, qr.mask_pattern) = BeforeMask

\* C26 witness: all eight candidates were tried and mask 7 was selected; the
\* final matrix differs from the constructed one.
C26_Witness ==
  /\ AutoMaskEncoded /\ last.evals = 8 /\ qr.mask_pattern = 7
  /\ qr.data # BeforeMask

\* C27: every module buffer that was allocated and not yet freed is the one
\* some QrState's data field points to; none was lost by overwriting a
\* non-null data pointer.
C27_NoModuleBufferLost ==
  heap = Held(qr_states[1]) + Held(qr_states[2])

\* The last call was qr_protection_generate_variations and returned true.
GeneratedVariations ==
  prot_last.op = "qr_protection_generate_variations" /\ prot_last.ret

\* C28: after qr_protection_generate_variations returned true, every
\* variation below variation_count holds an encoded symbol, the one
\* current_variation selects included.
C28_CountedVariationsAreEncoded ==
  GeneratedVariations =>
    /\ \A i \in 0..(prot.variation_count - 1) : prot.variations[i].data # NULL
    /\ prot.current_variation \in 0..(prot.variation_count - 1)

\* Protection is enabled with more than one variation and a positive
\* display_frames.
Switching ==
  prot.enabled /\ prot.variation_count > 1 /\ prot.display_frames > 0

\* A step of qr_protection_update while switching is on keeps
\* current_variation in range, changes it from k to (k + 1) mod
\* variation_count only, and changes it only when display_frames frames
\* have passed since it last changed it.
SwitchStep ==
  (Switching /\ prot_last'.op = "qr_protection_update") =>
    /\ prot'.current_variation \in 0..(prot.variation_count - 1)
    /\ (prot'.current_variation # prot.current_variation) =>
         /\ prot'.current_variation =
              (prot.current_variation + 1) % prot.variation_count
         /\ frames.switched => frames.since_switch >= prot.display_frames

\* C29: while switching is on, current_variation stays in range, advances
\* by one modulo variation_count, never sooner than display_frames frames
\* after the previous advance, and as the main loop keeps running every
\* variation is displayed again and again: switching, once on, stays on
\* with the same variation_count, and each variation k below that count is
\* the current one infinitely often.
C29_VariationsRotateOnTime ==
  /\ [][SwitchStep]_vars
  /\ [][Switching => (Switching' /\ prot'.variation_count = prot.variation_count)]_vars
  /\ \A k \in 0..(QR_MAX_VARIATIONS - 1) :
       []<>((Switching /\ k < prot.variation_count) =>
              prot.current_variation = k)

\* C29 witness: switching is on and current_variation has just come back to
\* 0 after a full round.
C29_Witness ==
  /\ Switching /\ frames.switched /\ frames.since_switch = 0
  /\ prot_last.op = "qr_protection_update"
  /\ prot.current_variation = 0

\* The modules an inversion call was given that it changed.
InvertedCells ==
  { k \in 0..(qr.size * qr.size - 1) : qr.data[k] # prot_last.data[k] }

\* C30: qr_apply_module_inversion changes no function-pattern module: the
\* finder patterns, separators, timing lines, alignment patterns, both
\* copies of the format information and the dark module are after the call
\* as they were before it, for every symbol size and every percentage.
C30_InversionKeepsFunctionPatterns ==
  (prot_last.op = "qr_apply_module_inversion" /\ qr.data # NULL) =>
    InvertedCells \cap FunctionCells(qr.size) = {}

=============================================================================
